---- MODULE Spec2Model ----
(***************************************************************************)
(* Model of the spectral-data engine of cfis-utils:                        *)
(*   Spectrum                (src/src/cfis_utils/spectrum.py)              *)
(*   TridimensionalSpectrum  (src/src/cfis_utils/tridimensional_spectrum.py)*)
(*                                                                         *)
(* Conventions                                                             *)
(*  - An Optional[...] is None (the empty tuple) or Some(x) (a 1-tuple).   *)
(*  - A NumPy int32 array is a sequence of integers.                       *)
(*  - A Python float is an integer number of halves (1.0 is 2, 0.5 is 1).  *)
(*  - A Python value is a record [t, n, w, s, o]: t is the type tag, n an  *)
(*    integer payload, w the number of times 2^32 has to be added to n to  *)
(*    get an int's mathematical value (n is then its int32 residue), s a   *)
(*    string payload and o the items of a list or of a dict.               *)
(*  - An operation returns [s |-> the object afterwards, exc |-> the       *)
(*    exception raised or "none", ret |-> the value returned].             *)
(***************************************************************************)
EXTENDS Integers, Sequences, FiniteSets, TLC

VARIABLES
    sp,          \* the Spectrum under test
    agg,         \* TridimensionalSpectrum._spectra: <<[coords, spectra]>> in insertion order
    numpy_wraps, \* the installed NumPy casts out-of-range Python ints silently (TRUE) or raises OverflowError
    disk,        \* the files at the path of save_as_json / load_from_json: [json, gz, mca], each None or Some(content)
    intensity_data, \* TridimensionalSpectrumViewer.intensity_data: <<[coords, intensity]>> in insertion order
    saved,       \* the Spectrum as it was when save_as_json last wrote the file, None before
    saved_gz,    \* the Spectrum whose compressed save wrote the present path.json.gz, None if there is none
    pre,         \* the object the last operation was called on, as it was before the call
    op,          \* name of the last public operation called
    arg,         \* its argument
    exc,         \* the exception it raised, or "none"
    ret          \* the value it returned

vars == <<sp, agg, numpy_wraps, disk, intensity_data, saved, saved_gz, pre, op, arg, exc, ret>>

(***************************************************************************)
(* Bounds of the model                                                     *)
(***************************************************************************)
MaxLen == 2       \* longest count sequence handed to a Spectrum
MaxFiles == 2     \* most entries in an ingested folder
MaxSpectra == 2   \* most spectra added one by one to the aggregate
MaxDetectorSpectra == 3   \* most spectra added to the aggregate the detector queries run on

(***************************************************************************)
(* Optional values and small helpers                                       *)
(***************************************************************************)
None == <<>>
Some(x) == <<x>>
IsNone(o) == Len(o) = 0
Val(o) == o[1]

SeqsUpTo(S, n) == UNION {[1..k -> S] : k \in 0..n}

RECURSIVE SumSeq(_)
SumSeq(q) == IF q = <<>> THEN 0 ELSE q[1] + SumSeq(Tail(q))

\* The sequence f as a tuple: its elements are computed when it is built
Tuple(f) == f \o <<>>

\* The element of a one-element set.  {F(x) : x \in {e}} evaluates e once and
\* hands F its value, so Only({F(x) : x \in {e}}) is F(e) computed step by step, as the code does.
Only(S) == CHOOSE x \in S : TRUE

(***************************************************************************)
(* Python values                                                           *)
(***************************************************************************)
PyVal(t, n, w, s, o) == [t |-> t, n |-> n, w |-> w, s |-> s, o |-> o]
PyNone == PyVal("none", 0, 0, "", <<>>)
PyBool(b) == PyVal("bool", IF b THEN 1 ELSE 0, 0, "", <<>>)
PyInt(v) == PyVal("int", v, 0, "", <<>>)
PyWide(k, v) == PyVal("int", v, k, "", <<>>)   \* the integer k * 2^32 + v
PyFloat(h) == PyVal("float", h, 0, "", <<>>)   \* the float h / 2
PyStr(s) == PyVal("str", 0, 0, s, <<>>)
PyList(items) == PyVal("list", 0, 0, "", items)
PyDict(items) == PyVal("dict", 0, 0, "", items) \* items: <<[k |-> key, v |-> value]>>
Item(k, v) == [k |-> k, v |-> v]

\* float(x) of a Python number, in halves
FloatOfInt(n) == 2 * n

\* The sign of a Python int's mathematical value.
IsNegative(v) == v.w < 0 \/ (v.w = 0 /\ v.n < 0)
FitsInt32(v) == v.w = 0

\* dict: key lookup, membership, dict.get(key, default), dict.update(items)
Keys(items) == {items[i].k : i \in 1..Len(items)}
HasKey(items, key) == key \in Keys(items)
Lookup(items, key) == items[CHOOSE i \in 1..Len(items) : items[i].k = key].v
DictGet(items, key, default) == IF HasKey(items, key) THEN Lookup(items, key) ELSE default

SetItem(items, it) ==
    IF HasKey(items, it.k)
    THEN Tuple([i \in 1..Len(items) |-> IF items[i].k = it.k THEN it ELSE items[i]])
    ELSE Append(items, it)

RECURSIVE DictUpdate(_, _)
DictUpdate(items, new) ==
    IF new = <<>> THEN items
    ELSE DictUpdate(SetItem(items, Head(new)), Tail(new))

(***************************************************************************)
(* NumPy conversions                                                       *)
(***************************************************************************)
\* int(s) of the strings the model supplies; any other string is no integer literal
IntStrings == {"0", "1", "3"}
IntOfStr(s) == CASE s = "0" -> 0 [] s = "1" -> 1 [] s = "3" -> 3

\* A C cast to int32 keeps the residue modulo 2^32 of an integer, which is the
\* payload n of its representation, and truncates a float (h halves) toward zero.
AsInt32(v) ==
    IF v.t = "float"
    THEN (IF v.n >= 0 THEN v.n \div 2 ELSE -((-v.n) \div 2))
    ELSE v.n

\* What np.array(items, dtype=np.int32) makes of one element of a Python list
ElemError(v, wraps) ==
    CASE v.t \in {"none", "dict", "list"} -> "TypeError"
      [] v.t = "str" -> IF v.s \in IntStrings THEN "none" ELSE "ValueError"
      [] v.t = "int" -> IF FitsInt32(v) \/ wraps THEN "none" ELSE "OverflowError"
      [] OTHER -> "none"

ElemInt32(v) == IF v.t = "str" THEN IntOfStr(v.s) ELSE AsInt32(v)

\* np.array(list, dtype=np.int32): the first element that cannot be converted raises
ArrayFromList(items, wraps) ==
    LET bad == {i \in 1..Len(items) : ElemError(items[i], wraps) # "none"}
    IN  IF bad # {}
        THEN [exc |-> ElemError(items[CHOOSE i \in bad : \A j \in bad : i <= j], wraps),
              arr |-> <<>>]
        ELSE [exc |-> "none", arr |-> Tuple([i \in 1..Len(items) |-> ElemInt32(items[i])])]

\* ndarray.astype(np.int32, copy=True): an unchecked cast of every element
AsTypeInt32(items) == Tuple([i \in 1..Len(items) |-> AsInt32(items[i])])

\* Mutants of the clamp: the absolute value, and no clamp at all
Max0_Abs(x) == IF x < 0 THEN -x ELSE x
Maximum0_Identity(a) == a

\* np.maximum(0, a)
Max0(x) == IF x < 0 THEN 0 ELSE x
Maximum0(a) == Tuple([i \in 1..Len(a) |-> Max0(a[i])])

\* np.zeros_like(a, dtype=np.int32)
ZerosLike(a) == Tuple([i \in 1..Len(a) |-> 0])

\* A NumPy array as the argument of a call: its elements are Python ints
NdArray(items) == PyVal("ndarray", 0, 0, "", items)

\* ndarray.tolist()
ToList(a) == PyList(Tuple([i \in 1..Len(a) |-> PyInt(a[i])]))

(***************************************************************************)
(* Spectrum                                                                *)
(***************************************************************************)
R(s, e, r) == [s |-> s, exc |-> e, ret |-> r]

FORMAT_VERSION == "1.0"

\* Spectrum.__init__
NewSpectrum ==
    [raw_counts |-> None, background_counts |-> None,
     cal_a |-> FloatOfInt(1), cal_b |-> FloatOfInt(0), metadata |-> <<>>]

get_num_channels(s) == IF IsNone(s.raw_counts) THEN 0 ELSE Len(Val(s.raw_counts))

\* Mutant: the background is dropped instead of zeroed
ResetBackground_Absent(s) == [s EXCEPT !.background_counts = None]

\* Spectrum._reset_background
ResetBackground(s) ==
    IF ~IsNone(s.raw_counts)
    THEN [s EXCEPT !.background_counts = Some(ZerosLike(Val(s.raw_counts)))]
    ELSE [s EXCEPT !.background_counts = None]

\* Mutant: an existing background is kept whatever its length
SetRawCounts_KeepBackground(s, counts, wraps) ==
    LET conv == IF counts.t = "list" THEN ArrayFromList(counts.o, wraps)
                ELSE IF counts.t = "ndarray"
                     THEN [exc |-> "none", arr |-> AsTypeInt32(counts.o)]
                     ELSE [exc |-> "TypeError", arr |-> <<>>]
    IN  IF conv.exc # "none" THEN R(s, conv.exc, None)
        ELSE LET s1 == [s EXCEPT !.raw_counts = Some(Maximum0(conv.arr))]
             IN  IF IsNone(s1.background_counts)
                 THEN R(ResetBackground(s1), "none", None)
                 ELSE R(s1, "none", None)

\* Mutant: every set_raw_counts resets the background
SetRawCounts_AlwaysReset(s, counts, wraps) ==
    LET conv == IF counts.t = "list" THEN ArrayFromList(counts.o, wraps)
                ELSE IF counts.t = "ndarray"
                     THEN [exc |-> "none", arr |-> AsTypeInt32(counts.o)]
                     ELSE [exc |-> "TypeError", arr |-> <<>>]
    IN  IF conv.exc # "none" THEN R(s, conv.exc, None)
        ELSE R(ResetBackground([s EXCEPT !.raw_counts = Some(Maximum0(conv.arr))]),
               "none", None)

\* Spectrum.set_raw_counts
SetRawCounts(s, counts, wraps) ==
    LET conv == IF counts.t = "list" THEN ArrayFromList(counts.o, wraps)
                ELSE IF counts.t = "ndarray"
                     THEN [exc |-> "none", arr |-> AsTypeInt32(counts.o)]
                     ELSE [exc |-> "TypeError", arr |-> <<>>]
    IN  IF conv.exc # "none" THEN R(s, conv.exc, None)
        ELSE LET raw == IF \E i \in 1..Len(conv.arr) : conv.arr[i] < 0
                        THEN Maximum0(conv.arr) ELSE conv.arr
                 s1 == [s EXCEPT !.raw_counts = Some(raw)]
             IN  IF IsNone(s1.background_counts)
                    \/ Len(raw) # Len(Val(s1.background_counts))
                 THEN R(ResetBackground(s1), "none", None)
                 ELSE R(s1, "none", None)

\* isinstance(x, (int, float)); bool is a subclass of int
IsNumeric(v) == v.t \in {"int", "float", "bool"}
\* float(x) of a numeric value, in halves
ToFloat(v) == IF v.t = "float" THEN v.n ELSE FloatOfInt(v.n)

\* Spectrum.set_calibration
SetCalibration(s, slope_a, intercept_b) ==
    IF ~IsNumeric(slope_a) \/ ~IsNumeric(intercept_b) THEN R(s, "TypeError", None)
    ELSE R([s EXCEPT !.cal_a = ToFloat(slope_a), !.cal_b = ToFloat(intercept_b)], "none", None)

\* Spectrum.add_metadata
AddMetadata(s, metadata_dict) ==
    IF metadata_dict.t # "dict" THEN R(s, "TypeError", None)
    ELSE R([s EXCEPT !.metadata = DictUpdate(s.metadata, metadata_dict.o)], "none", None)

\* Mutant: a channel-count mismatch is repaired (background zeroed) before raising
SetBackground_Repairs(s, other) ==
    IF ~other.is_spectrum THEN R(s, "TypeError", None)
    ELSE IF IsNone(s.raw_counts) THEN R(s, "ValueError", None)
    ELSE IF IsNone(other.s.raw_counts) THEN R(s, "ValueError", None)
    ELSE IF get_num_channels(s) # Len(Val(other.s.raw_counts))
    THEN R(ResetBackground(s), "ValueError", None)
    ELSE R([s EXCEPT !.background_counts = Some(Val(other.s.raw_counts))], "none", None)

\* Spectrum.set_background; other is [is_spectrum, s]
SetBackground(s, other) ==
    IF ~other.is_spectrum THEN R(s, "TypeError", None)
    ELSE IF IsNone(s.raw_counts) THEN R(s, "ValueError", None)
    ELSE IF IsNone(other.s.raw_counts) THEN R(s, "ValueError", None)
    ELSE IF get_num_channels(s) # Len(Val(other.s.raw_counts)) THEN R(s, "ValueError", None)
    ELSE R([s EXCEPT !.background_counts = Some(AsTypeInt32(ToList(Val(other.s.raw_counts)).o))],
           "none", None)

\* Spectrum.reset_background
ResetBackgroundOp(s) == R(ResetBackground(s), "none", None)

\* Mutant: the difference is not clipped at zero
GetCountsWithoutBackground_NoClip(s) ==
    IF IsNone(s.raw_counts) THEN R(s, "none", None)
    ELSE LET s1 == IF IsNone(s.background_counts) THEN ResetBackground(s) ELSE s
             raw == Val(s1.raw_counts)
         IN  IF Len(raw) # Len(Val(s1.background_counts))
             THEN R(ResetBackground(s1), "none", Some(raw))
             ELSE R(s1, "none",
                    Some(Tuple([i \in 1..Len(raw) |-> raw[i] - Val(s1.background_counts)[i]])))

\* Spectrum.get_counts_without_background
GetCountsWithoutBackground(s) ==
    IF IsNone(s.raw_counts) THEN R(s, "none", None)
    ELSE LET s1 == IF IsNone(s.background_counts) THEN ResetBackground(s) ELSE s
             raw == Val(s1.raw_counts)
         IN  IF IsNone(s1.background_counts) THEN R(s1, "none", Some(raw))
             ELSE IF Len(raw) # Len(Val(s1.background_counts))
             THEN R(ResetBackground(s1), "none", Some(raw))
             ELSE R(s1, "none",
                    Some(Tuple([i \in 1..Len(raw) |-> Max0(raw[i] - Val(s1.background_counts)[i])])))

\* a get_data whose axes count the channels from 1
GetData_OneBased(s, use_energy_axis, without_background) ==
    LET sub == GetCountsWithoutBackground(s)
        y == IF without_background THEN sub.ret ELSE s.raw_counts
        s1 == IF without_background THEN sub.s ELSE s
    IN  IF IsNone(y) THEN R(s1, "none", None)
        ELSE LET n == Len(Val(y))
                 x == IF use_energy_axis
                      THEN Tuple([i \in 1..n |-> s1.cal_a * i + s1.cal_b])
                      ELSE Tuple([i \in 1..n |-> i])
             IN  R(s1, "none",
                   Some([axis |-> IF use_energy_axis THEN "energy" ELSE "channel",
                         x |-> x, y |-> Val(y)]))

\* Spectrum.get_data; the energy axis is in halves, the channel axis in channels
GetData(s, use_energy_axis, without_background) ==
    LET sub == GetCountsWithoutBackground(s)
        y == IF without_background THEN sub.ret ELSE s.raw_counts
        s1 == IF without_background THEN sub.s ELSE s
    IN  IF IsNone(y) THEN R(s1, "none", None)
        ELSE LET n == Len(Val(y))
                 x == IF use_energy_axis
                      THEN Tuple([i \in 1..n |-> s1.cal_a * (i - 1) + s1.cal_b])
                      ELSE Tuple([i \in 1..n |-> i - 1])
             IN  R(s1, "none",
                   Some([axis |-> IF use_energy_axis THEN "energy" ELSE "channel",
                         x |-> x, y |-> Val(y)]))

\* Mutant: clear forgets the metadata
Clear_KeepsMetadata(s) == R([NewSpectrum EXCEPT !.metadata = s.metadata], "none", None)

\* Spectrum.clear
Clear(s) == R(NewSpectrum, "none", None)

(***************************************************************************)
(* Tag-delimited text format.  A line of the file, after strip(), is one   *)
(* of: "blank" (empty), "data" (starts with <<DATA>>), "end" (starts with  *)
(* <<END>>), "tag" (starts with << otherwise), "int" (int(line) succeeds   *)
(* and gives v) or "junk" (int(line) raises ValueError).                   *)
(***************************************************************************)
McaLine(t, v) == [t |-> t, v |-> v]

\* a scan that takes every integer line of the file, in or out of a data section
ScanMca_AllIntegers(lines, in_data_section, raw_counts_list) ==
    raw_counts_list \o
        Tuple([k \in 1..Len(SelectSeq(lines, LAMBDA l : l.t = "int")) |->
                  SelectSeq(lines, LAMBDA l : l.t = "int")[k].v])

\* the scan loop of Spectrum.load_from_mca: the list of parsed integers
RECURSIVE ScanMca(_, _, _)
ScanMca(lines, in_data_section, raw_counts_list) ==
    IF lines = <<>> THEN raw_counts_list
    ELSE LET line == Head(lines)
             rest == Tail(lines)
         IN  CASE line.t = "blank" -> ScanMca(rest, in_data_section, raw_counts_list)
               [] line.t = "data" -> ScanMca(rest, TRUE, raw_counts_list)
               [] line.t = "end" -> raw_counts_list
               [] line.t = "tag" -> ScanMca(rest, FALSE, raw_counts_list)
               [] line.t = "int" ->
                    ScanMca(rest, in_data_section,
                            IF in_data_section THEN Append(raw_counts_list, line.v)
                            ELSE raw_counts_list)
               [] line.t = "junk" -> ScanMca(rest, in_data_section, raw_counts_list)

\* a load_from_mca that starts from a cleared object
LoadFromMca_Clears(s, file, wraps) ==
    IF ~file.exists THEN R(s, "FileNotFoundError", None)
    ELSE LET raw_counts_list == ScanMca(file.lines, FALSE, <<>>)
         IN  IF raw_counts_list # <<>>
             THEN SetRawCounts(NewSpectrum, PyList(raw_counts_list), wraps)
             ELSE R(ResetBackground([NewSpectrum EXCEPT !.raw_counts = Some(<<>>)]), "none", None)

\* Spectrum.load_from_mca; file is [exists, lines]
LoadFromMca(s, file, wraps) ==
    IF ~file.exists THEN R(s, "FileNotFoundError", None)
    ELSE LET raw_counts_list == ScanMca(file.lines, FALSE, <<>>)
         IN  IF raw_counts_list # <<>>
             THEN SetRawCounts(s, PyList(raw_counts_list), wraps)
             ELSE R(ResetBackground([s EXCEPT !.raw_counts = Some(<<>>)]), "none", None)

\* a save_as_mca that writes the counts without the <<DATA>> line
SaveAsMca_NoDataTag(s, d) ==
    IF IsNone(s.raw_counts) THEN [exc |-> "ValueError", disk |-> d]
    ELSE [exc |-> "none",
          disk |-> [d EXCEPT !.mca =
                      Some(Tuple([i \in 1..Len(Val(s.raw_counts)) |->
                                      McaLine("int", PyInt(Val(s.raw_counts)[i]))])
                           \o <<McaLine("end", PyNone)>>)]]

\* Spectrum.save_as_mca: <<DATA>>, one line per count written as a decimal
\* integer, <<END>>; the result is the exception and the file system
SaveAsMca(s, d) ==
    IF IsNone(s.raw_counts) THEN [exc |-> "ValueError", disk |-> d]
    ELSE [exc |-> "none",
          disk |-> [d EXCEPT !.mca =
                      Some(<<McaLine("data", PyNone)>>
                           \o Tuple([i \in 1..Len(Val(s.raw_counts)) |->
                                        McaLine("int", PyInt(Val(s.raw_counts)[i]))])
                           \o <<McaLine("end", PyNone)>>)]]

\* the file load_from_mca finds at the path: [exists, lines]
McaFileAt(d) ==
    IF IsNone(d.mca) THEN [exists |-> FALSE, lines |-> <<>>]
    ELSE [exists |-> TRUE, lines |-> Val(d.mca)]

(***************************************************************************)
(* JSON document format.  A JSON text is [parsable, j]; j is its value     *)
(* tree in the record shape of the Python values, with the JSON type tags  *)
(* null, true, false, number (s tells an integer from a float literal),    *)
(* string, array and object.                                               *)
(***************************************************************************)
\* json.dumps
RECURSIVE JsonEncode(_)
JsonEncode(v) ==
    CASE v.t = "none" -> PyVal("null", 0, 0, "", <<>>)
      [] v.t = "bool" -> PyVal(IF v.n = 1 THEN "true" ELSE "false", 0, 0, "", <<>>)
      [] v.t = "int" -> PyVal("number", v.n, v.w, "int", <<>>)
      [] v.t = "float" -> PyVal("number", v.n, 0, "float", <<>>)
      [] v.t = "str" -> PyVal("string", 0, 0, v.s, <<>>)
      [] v.t = "list" ->
            PyVal("array", 0, 0, "", Tuple([i \in 1..Len(v.o) |-> JsonEncode(v.o[i])]))
      [] v.t = "dict" ->
            PyVal("object", 0, 0, "",
                  Tuple([i \in 1..Len(v.o) |-> Item(v.o[i].k, JsonEncode(v.o[i].v))]))

JsonDumps(v) == [parsable |-> TRUE, j |-> JsonEncode(v)]

\* json.loads of a parsable text
RECURSIVE JsonDecode(_)
JsonDecode(j) ==
    CASE j.t = "null" -> PyNone
      [] j.t = "true" -> PyBool(TRUE)
      [] j.t = "false" -> PyBool(FALSE)
      [] j.t = "number" -> IF j.s = "float" THEN PyFloat(j.n) ELSE PyWide(j.w, j.n)
      [] j.t = "string" -> PyStr(j.s)
      [] j.t = "array" -> PyList(Tuple([i \in 1..Len(j.o) |-> JsonDecode(j.o[i])]))
      [] j.t = "object" ->
            PyDict(Tuple([i \in 1..Len(j.o) |-> Item(j.o[i].k, JsonDecode(j.o[i].v))]))

\* Mutant: the document leaves the background out
GetAsJson_NoBackground(s) ==
    PyDict(<< Item("format_version", PyStr(FORMAT_VERSION)),
              Item("num_channels", PyInt(get_num_channels(s))),
              Item("calibration_a", PyFloat(s.cal_a)),
              Item("calibration_b", PyFloat(s.cal_b)),
              Item("metadata", PyDict(s.metadata)),
              Item("raw_counts", ToList(Val(s.raw_counts))),
              Item("background_counts", PyNone) >>)

\* Spectrum.get_as_json (the caller has checked that raw counts exist)
GetAsJson(s) ==
    PyDict(<< Item("format_version", PyStr(FORMAT_VERSION)),
              Item("num_channels", PyInt(get_num_channels(s))),
              Item("calibration_a", PyFloat(s.cal_a)),
              Item("calibration_b", PyFloat(s.cal_b)),
              Item("metadata", PyDict(s.metadata)),
              Item("raw_counts", ToList(Val(s.raw_counts))),
              Item("background_counts",
                   IF ~IsNone(s.background_counts)
                   THEN ToList(Val(s.background_counts)) ELSE PyNone) >>)

\* a background step that lets the ValueError of set_background escape
LoadBackground_Raises(s, data, wraps) ==
    LET bg_counts == DictGet(data.o, "background_counts", PyNone)
        conv == ArrayFromList(bg_counts.o, wraps)
        background_spectrum == SetRawCounts(NewSpectrum, NdArray(ToList(conv.arr).o), wraps).s
        set == SetBackground(s, [is_spectrum |-> TRUE, s |-> background_spectrum])
    IN  IF bg_counts.t = "list"
        THEN IF conv.exc # "none" THEN R(s, conv.exc, None) ELSE set
        ELSE IF ~IsNone(s.background_counts) THEN R(ResetBackground(s), "none", None)
        ELSE R(s, "none", None)

\* Spectrum.load_from_json_string: the part after raw_counts has been stored
LoadBackground(s, data, wraps) ==
    LET bg_counts == DictGet(data.o, "background_counts", PyNone)
        conv == ArrayFromList(bg_counts.o, wraps)
        background_spectrum == SetRawCounts(NewSpectrum, NdArray(ToList(conv.arr).o), wraps).s
        set == SetBackground(s, [is_spectrum |-> TRUE, s |-> background_spectrum])
    IN  IF bg_counts.t = "list"
        THEN IF conv.exc # "none" THEN R(s, conv.exc, None)
             ELSE IF set.exc = "ValueError" THEN R(ResetBackground(s), "none", None)
             ELSE set
        ELSE IF ~IsNone(s.background_counts) THEN R(ResetBackground(s), "none", None)
        ELSE R(s, "none", None)

\* Spectrum.load_from_json_string: the part after the metadata has been added
LoadRawCounts(s, data, wraps) ==
    LET raw_counts == DictGet(data.o, "raw_counts", PyNone)
    IN  IF raw_counts.t # "list" THEN R(s, "ValueError", None)
        ELSE Only({ IF conv.exc # "none" THEN R(s, conv.exc, None)
                    ELSE Only({ LoadBackground(r3.s, data, wraps)
                                  : r3 \in {SetRawCounts(s, NdArray(ToList(conv.arr).o), wraps)} })
                      : conv \in {ArrayFromList(raw_counts.o, wraps)} })

\* a load that rejects a document whose format_version is not FORMAT_VERSION
LoadFromData_StrictVersion(s0, data, wraps) ==
    IF data.t = "dict" /\ DictGet(data.o, "format_version", PyNone) # PyStr(FORMAT_VERSION)
    THEN R(s0, "ValueError", None)
    ELSE
    IF data.t # "dict" THEN R(s0, "AttributeError", None)
    ELSE Only({ IF r1.exc # "none" THEN r1
                ELSE Only({ IF r2.exc # "none" THEN r2 ELSE LoadRawCounts(r2.s, data, wraps)
                              : r2 \in {AddMetadata(r1.s, DictGet(data.o, "metadata", PyDict(<<>>)))} })
                  : r1 \in {SetCalibration(s0,
                                DictGet(data.o, "calibration_a", PyFloat(FloatOfInt(1))),
                                DictGet(data.o, "calibration_b", PyFloat(FloatOfInt(0))))} })

\* Spectrum.load_from_json_string: the part after the text has been parsed
LoadFromData(s0, data, wraps) ==
    IF data.t # "dict" THEN R(s0, "AttributeError", None)
    ELSE Only({ IF r1.exc # "none" THEN r1
                ELSE Only({ IF r2.exc # "none" THEN r2 ELSE LoadRawCounts(r2.s, data, wraps)
                              : r2 \in {AddMetadata(r1.s, DictGet(data.o, "metadata", PyDict(<<>>)))} })
                  : r1 \in {SetCalibration(s0,
                                DictGet(data.o, "calibration_a", PyFloat(FloatOfInt(1))),
                                DictGet(data.o, "calibration_b", PyFloat(FloatOfInt(0))))} })

\* Spectrum.load_from_json_string
LoadFromJsonString(s, json_string, wraps) ==
    IF ~json_string.parsable THEN R(Clear(s).s, "JSONDecodeError", None)
    ELSE Only({ LoadFromData(s0, data, wraps)
                  : s0 \in {Clear(s).s}, data \in {JsonDecode(json_string.j)} })

\* Spectrum.load_from_json_string logs a warning about the document's format_version
VersionWarning(data) ==
    DictGet(data.o, "format_version", PyNone) # PyStr(FORMAT_VERSION)

\* Spectrum.load_from_json_string logs a warning about the document's num_channels
ChannelsWarning(s, data) ==
    /\ HasKey(data.o, "num_channels")
    /\ LET v == Lookup(data.o, "num_channels")
       IN  ~ \/ v.t = "int" /\ v.w = 0 /\ v.n = get_num_channels(s)
             \/ v.t = "float" /\ v.n = 2 * get_num_channels(s)

\* The file system at the path save_as_json and load_from_json derive from
\* their filename (Path(filename).with_suffix(".json")): the text of the
\* file there, if there is one
NoFiles == [json |-> None, gz |-> None, mca |-> None]

\* Spectrum.save_as_json with compressed=False: json.dump of get_as_json()
\* into the file; the result is the exception and the file system
SaveAsJson(s, d) ==
    IF IsNone(s.raw_counts) THEN [exc |-> "ValueError", disk |-> d]
    ELSE [exc |-> "none", disk |-> [d EXCEPT !.json = Some(JsonDumps(GetAsJson(s)))]]

\* the directory entry load_from_json finds at the path
FileAt(d) ==
    IF IsNone(d.json)
    THEN [kind |-> "missing", suffix |-> ".json", text |-> JsonDumps(PyNone), children |-> <<>>]
    ELSE [kind |-> "file", suffix |-> ".json", text |-> Val(d.json), children |-> <<>>]

\* The except clauses of Spectrum.load_from_json
LoadExc(e) ==
    IF e \in {"JSONDecodeError", "KeyError", "TypeError", "ValueError"} THEN "ValueError" ELSE e

\* Mutant: the Spectrum is cleared before the file is looked for
LoadFromJson_ClearsFirst(s, file, wraps) ==
    IF file.kind # "file" THEN R(Clear(s).s, "FileNotFoundError", None)
    ELSE Only({ R(r.s, LoadExc(r.exc), None) : r \in {LoadFromJsonString(s, file.text, wraps)} })

\* Spectrum.load_from_json with compressed=False; file is the entry at the path
\* with the .json suffix: [kind, suffix, text, children]
LoadFromJson(s, file, wraps) ==
    IF file.kind # "file" THEN R(s, "FileNotFoundError", None)
    ELSE Only({ R(r.s, LoadExc(r.exc), None) : r \in {LoadFromJsonString(s, file.text, wraps)} })

\* gzip: the content of a .gz file is its member, or nothing when the write
\* stopped before the end of the stream
Gzip(text) == [member |-> Some(text)]
TruncatedGz == [member |-> None]
\* the content of a file opened for writing and never written
EmptyText == [parsable |-> FALSE, j |-> JsonEncode(PyNone)]
\* the file-system faults the model injects into a compressed save or load
Faults == {"none", "write", "unlink"}

\* CompressionUtils.compress_file_gz(input_filepath=path.json, compresslevel,
\* remove_original) that leaves the original in place whatever remove_original says
CompressFileGz_KeepOriginal(d, compresslevel, remove_original, fault) ==
    IF ~(0 <= compresslevel /\ compresslevel <= 9) THEN [exc |-> "ValueError", disk |-> d]
    ELSE IF IsNone(d.json) THEN [exc |-> "FileNotFoundError", disk |-> d]
    ELSE IF fault = "write" THEN [exc |-> "OSError", disk |-> [d EXCEPT !.gz = Some(TruncatedGz)]]
    ELSE [exc |-> "none", disk |-> [d EXCEPT !.gz = Some(Gzip(Val(d.json)))]]

\* CompressionUtils.compress_file_gz(input_filepath=path.json, compresslevel,
\* remove_original): the output is path.json.gz
CompressFileGz(d, compresslevel, remove_original, fault) ==
    IF ~(0 <= compresslevel /\ compresslevel <= 9) THEN [exc |-> "ValueError", disk |-> d]
    ELSE IF IsNone(d.json) THEN [exc |-> "FileNotFoundError", disk |-> d]
    ELSE IF fault = "write" THEN [exc |-> "OSError", disk |-> [d EXCEPT !.gz = Some(TruncatedGz)]]
    ELSE IF ~remove_original
         THEN [exc |-> "none", disk |-> [d EXCEPT !.gz = Some(Gzip(Val(d.json)))]]
    ELSE IF fault = "unlink"
         THEN [exc |-> "OSError", disk |-> [d EXCEPT !.gz = Some(Gzip(Val(d.json)))]]
    ELSE [exc |-> "none", disk |-> [d EXCEPT !.json = None, !.gz = Some(Gzip(Val(d.json)))]]

\* Spectrum.save_as_json with compressed=True: step 1 writes path.json, step 2
\* compresses it and removes it; every exception of step 2 becomes an IOError
SaveAsJsonGz(s, d, compresslevel, fault) ==
    Only({ IF w.exc # "none" THEN w
           ELSE Only({ [exc |-> IF c.exc = "none" THEN "none" ELSE "IOError", disk |-> c.disk] :
                       c \in {CompressFileGz(w.disk, compresslevel, TRUE, fault)} }) :
           w \in {SaveAsJson(s, d)} })

\* CompressionUtils.decompress_file_gz(input_filepath=path.json): the output
\* is path.json; the input is path.json when that is a file, else path.json.gz
DecompressFileGz(d, fault) ==
    IF ~IsNone(d.json) THEN [exc |-> "none", disk |-> [d EXCEPT !.json = Some(EmptyText)]]
    ELSE IF IsNone(d.gz) THEN [exc |-> "FileNotFoundError", disk |-> d]
    ELSE IF IsNone(Val(d.gz).member) \/ fault = "write"
         THEN [exc |-> "OSError", disk |-> [d EXCEPT !.json = Some(EmptyText)]]
    ELSE [exc |-> "none", disk |-> [d EXCEPT !.json = Val(d.gz).member]]

\* steps 2 to 4 of Spectrum.load_from_json with compressed=True that leave
\* the decompressed file in place
LoadDecompressed_NoUnlink(s, d, wraps, fault) ==
    Only({ [s |-> r.s, exc |-> r.exc, disk |-> d] :
           r \in {LoadFromJson(s, FileAt(d), wraps)} })

\* steps 2 to 4 of Spectrum.load_from_json with compressed=True: parse
\* path.json, then unlink it
LoadDecompressed(s, d, wraps, fault) ==
    Only({ IF r.exc # "none" THEN [s |-> r.s, exc |-> r.exc, disk |-> d]
           ELSE IF fault = "unlink" THEN [s |-> r.s, exc |-> "IOError", disk |-> d]
           ELSE [s |-> r.s, exc |-> "none", disk |-> [d EXCEPT !.json = None]] :
           r \in {LoadFromJson(s, FileAt(d), wraps)} })

\* Spectrum.load_from_json with compressed=True: [s, exc, disk]
LoadFromJsonGz(s, d, wraps, fault) ==
    Only({ IF c.exc = "FileNotFoundError" THEN [s |-> s, exc |-> "FileNotFoundError", disk |-> c.disk]
           ELSE IF c.exc # "none" THEN [s |-> s, exc |-> "IOError", disk |-> c.disk]
           ELSE LoadDecompressed(s, c.disk, wraps, fault) :
           c \in {DecompressFileGz(d, fault)} })

(***************************************************************************)
(* TridimensionalSpectrum.  _spectra is a dict in insertion order: a       *)
(* sequence of [coords, spectra], coords a triple of floats (in halves).   *)
(* A directory entry is [kind, suffix, text, children]: kind is "file",    *)
(* "dir" or "missing", children the entries of a sub-directory.            *)
(***************************************************************************)
\* the strings the model supplies that float(s) accepts, and their value in halves
FloatStrings == {"0.5", "1"}
FloatOfStr(s) == CASE s = "0.5" -> 1 [] s = "1" -> FloatOfInt(1)

\* float(v): [exc, f]
PyFloatOf(v) ==
    CASE IsNumeric(v) -> [exc |-> "none", f |-> ToFloat(v)]
      [] v.t = "str" -> IF v.s \in FloatStrings
                        THEN [exc |-> "none", f |-> FloatOfStr(v.s)]
                        ELSE [exc |-> "ValueError", f |-> 0]
      [] OTHER -> [exc |-> "TypeError", f |-> 0]

\* tuple(map(float, [x, y, z])): the first value that float() rejects raises
Coords(x, y, z) ==
    LET fx == PyFloatOf(x)
        fy == PyFloatOf(y)
        fz == PyFloatOf(z)
    IN  IF fx.exc # "none" THEN [exc |-> fx.exc, coords |-> <<>>]
        ELSE IF fy.exc # "none" THEN [exc |-> fy.exc, coords |-> <<>>]
        ELSE IF fz.exc # "none" THEN [exc |-> fz.exc, coords |-> <<>>]
        ELSE [exc |-> "none", coords |-> <<fx.f, fy.f, fz.f>>]

\* TridimensionalSpectrum.__init__ and clear
NoSpectra == <<>>
AggClear(a) == R(NoSpectra, "none", None)

CoordsOf(a) == {a[i].coords : i \in 1..Len(a)}
IndexOf(a, coords) == CHOOSE i \in 1..Len(a) : a[i].coords = coords

\* Mutant: the new spectrum replaces the list at its coordinate
AddNewSpectrum_Replace(a, spectrum, coords) ==
    LET a1 == IF coords \notin CoordsOf(a)
              THEN Append(a, [coords |-> coords, spectra |-> <<>>]) ELSE a
    IN  R([a1 EXCEPT ![IndexOf(a1, coords)].spectra = <<spectrum>>], "none", None)

\* TridimensionalSpectrum.add_new_spectrum
AddNewSpectrum(a, spectrum, coords) ==
    LET a1 == IF coords \notin CoordsOf(a)
              THEN Append(a, [coords |-> coords, spectra |-> <<>>]) ELSE a
    IN  R([a1 EXCEPT ![IndexOf(a1, coords)].spectra = Append(@, spectrum)], "none", None)

\* TridimensionalSpectrum.get_spectra_at_position
get_spectra_at_position(a, coords) ==
    IF coords \in CoordsOf(a) THEN a[IndexOf(a, coords)].spectra ELSE <<>>

\* TridimensionalSpectrum.get_num_spectra
get_num_spectra(a) == SumSeq([i \in 1..Len(a) |-> Len(a[i].spectra)])

\* Mutant: metadata without coordinates is placed at the origin
DeriveCoords_DefaultOrigin(metadata) ==
    IF HasKey(metadata, "position")
    THEN Coords(Lookup(Lookup(metadata, "position").o, "x"),
                Lookup(Lookup(metadata, "position").o, "y"),
                Lookup(Lookup(metadata, "position").o, "z"))
    ELSE IF HasKey(metadata, "x") /\ HasKey(metadata, "y") /\ HasKey(metadata, "z")
    THEN Coords(Lookup(metadata, "x"), Lookup(metadata, "y"), Lookup(metadata, "z"))
    ELSE [exc |-> "none", coords |-> <<0, 0, 0>>]

\* Mutant: an unusable position field falls back to the top-level x, y, z
DeriveCoords_FallBack(metadata) ==
    LET top == IF HasKey(metadata, "x") /\ HasKey(metadata, "y") /\ HasKey(metadata, "z")
               THEN Coords(Lookup(metadata, "x"), Lookup(metadata, "y"), Lookup(metadata, "z"))
               ELSE [exc |-> "ValueError", coords |-> <<>>]
    IN  IF HasKey(metadata, "position")
        THEN LET position == Lookup(metadata, "position")
             IN  IF position.t # "dict" THEN top
                 ELSE IF ~HasKey(position.o, "x") \/ ~HasKey(position.o, "y")
                         \/ ~HasKey(position.o, "z")
                 THEN top
                 ELSE Coords(Lookup(position.o, "x"), Lookup(position.o, "y"),
                             Lookup(position.o, "z"))
        ELSE top

\* The coordinates add_new_spectrum_from_file derives from the metadata
DeriveCoords(metadata) ==
    IF HasKey(metadata, "position")
    THEN LET position == Lookup(metadata, "position")
         IN  IF position.t # "dict" THEN [exc |-> "ValueError", coords |-> <<>>]
             ELSE IF ~HasKey(position.o, "x") \/ ~HasKey(position.o, "y")
                     \/ ~HasKey(position.o, "z")
             THEN [exc |-> "ValueError", coords |-> <<>>]
             ELSE Coords(Lookup(position.o, "x"), Lookup(position.o, "y"),
                         Lookup(position.o, "z"))
    ELSE IF HasKey(metadata, "x") /\ HasKey(metadata, "y") /\ HasKey(metadata, "z")
    THEN Coords(Lookup(metadata, "x"), Lookup(metadata, "y"), Lookup(metadata, "z"))
    ELSE [exc |-> "ValueError", coords |-> <<>>]

\* TridimensionalSpectrum.add_new_spectrum_from_file
AddNewSpectrumFromFile(a, file, wraps) ==
    IF file.kind # "file" THEN R(a, "FileNotFoundError", None)
    ELSE IF file.suffix # ".json" THEN R(a, "ValueError", None)
    ELSE Only({ IF loaded.exc # "none" THEN R(a, loaded.exc, None)
                ELSE Only({ IF c.exc # "none" THEN R(a, c.exc, None)
                            ELSE AddNewSpectrum(a, loaded.s, c.coords)
                              : c \in {DeriveCoords(loaded.s.metadata)} })
                  : loaded \in {LoadFromJson(NewSpectrum, file, wraps)} })

\* The loop of load_from_folder: the first file that raises ends it
RECURSIVE IngestFiles(_, _, _)
IngestFiles(a, json_files, wraps) ==
    IF json_files = <<>> THEN R(a, "none", None)
    ELSE Only({ IF r.exc # "none" THEN r ELSE IngestFiles(r.s, Tail(json_files), wraps)
                  : r \in {AddNewSpectrumFromFile(a, Head(json_files), wraps)} })

\* Mutant: the filter forgets the suffix
IsJsonFile_AnySuffix(f) == f.kind = "file"

IsJsonFile(f) == f.kind = "file" /\ f.suffix = ".json"

\* Mutant: the spectra held before the call are kept
LoadFromFolder_NoClear(a, folder_path, wraps) ==
    IF folder_path.kind # "dir" THEN R(a, "ValueError", None)
    ELSE Only({ IngestFiles(a, json_files, wraps)
                  : json_files \in {SelectSeq(folder_path.children, IsJsonFile)} })

\* TridimensionalSpectrum.load_from_folder; folder_path is the entry at the
\* path, its children in the order iterdir() yields them
LoadFromFolder(a, folder_path, wraps) ==
    IF folder_path.kind # "dir" THEN R(a, "ValueError", None)
    ELSE IF folder_path.kind = "missing" THEN R(a, "FileNotFoundError", None)
    ELSE Only({ IngestFiles(cleared, json_files, wraps)
                  : cleared \in {AggClear(a).s},
                    json_files \in {SelectSeq(folder_path.children, IsJsonFile)} })

(***************************************************************************)
(* TridimensionalSpectrum JSON document: the object {"format_version",     *)
(* "spectra"}, "spectra" an object whose keys are the coordinate tuples    *)
(* rendered as text.  The text of a float is its sign, integer part and    *)
(* first decimal; the text of a tuple is the sequence of its floats' texts.*)
(***************************************************************************)
\* str(f) of the float h / 2, and float(text) of such a text
FloatRepr(h) ==
    [neg |-> h < 0,
     int |-> (IF h < 0 THEN -h ELSE h) \div 2,
     frac |-> IF (IF h < 0 THEN -h ELSE h) % 2 = 1 THEN 5 ELSE 0]
FloatOfRepr(text) ==
    (IF text.neg THEN -1 ELSE 1) * (2 * text.int + (IF text.frac = 5 THEN 1 ELSE 0))

\* a rendering of a coordinate tuple that drops the decimals
CoordsStr_NoDecimals(k) == Tuple([i \in 1..Len(k) |-> [FloatRepr(k[i]) EXCEPT !.frac = 0]])

\* str(k) of a coordinate tuple
CoordsStr(k) == Tuple([i \in 1..Len(k) |-> FloatRepr(k[i])])
\* tuple(map(float, coords.replace("(", "").replace(")", "").split(",")))
ParseCoords(text) == Tuple([i \in 1..Len(text) |-> FloatOfRepr(text[i])])

\* the dictionary TridimensionalSpectrum.save_as_json builds: [exc, data];
\* get_as_json of a Spectrum without raw counts raises AttributeError
AggGetAsJson(a) ==
    IF \E i \in 1..Len(a) : \E j \in 1..Len(a[i].spectra) : IsNone(a[i].spectra[j].raw_counts)
    THEN [exc |-> "AttributeError", data |-> PyNone]
    ELSE [exc |-> "none",
          data |-> PyDict(<< Item("format_version", PyStr(FORMAT_VERSION)),
                             Item("spectra",
                                  PyDict(Tuple([i \in 1..Len(a) |->
                                      Item(CoordsStr(a[i].coords),
                                           PyList(Tuple([j \in 1..Len(a[i].spectra) |->
                                                            GetAsJson(a[i].spectra[j])])))]))) >>)]

\* TridimensionalSpectrum.save_as_json: [exc, disk]
AggSaveAsJson(a, d, compressed, compresslevel, fault) ==
    Only({ IF g.exc # "none" THEN [exc |-> g.exc, disk |-> d]
           ELSE Only({ IF ~compressed THEN [exc |-> "none", disk |-> d1]
                       ELSE Only({ [exc |-> IF c.exc = "none" THEN "none" ELSE "IOError",
                                    disk |-> c.disk]
                                     : c \in {CompressFileGz(d1, compresslevel, TRUE, fault)} })
                         : d1 \in {[d EXCEPT !.json = Some(JsonDumps(g.data))]} })
             : g \in {AggGetAsJson(a)} })

\* the inner loop of load_from_json: every document of a list is loaded into
\* a new Spectrum and added at coords; the first one that raises ends it
RECURSIVE AggLoadList(_, _, _, _)
AggLoadList(a, coords, spectrum_list_data, wraps) ==
    IF spectrum_list_data = <<>> THEN R(a, "none", None)
    ELSE Only({ IF r.exc # "none" THEN R(a, r.exc, None)
                ELSE AggLoadList(AddNewSpectrum(a, r.s, coords).s, coords,
                                 Tail(spectrum_list_data), wraps)
                  : r \in {LoadFromJsonString(NewSpectrum,
                                              JsonDumps(Head(spectrum_list_data)), wraps)} })

\* an outer loop whose old-format branch rejects the document
RECURSIVE AggLoadItems_ListsOnly(_, _, _)
AggLoadItems_ListsOnly(a, items, wraps) ==
    IF items = <<>> THEN R(a, "none", None)
    ELSE IF Head(items).v.t # "list" THEN R(a, "TypeError", None)
    ELSE Only({ IF r.exc # "none" THEN r ELSE AggLoadItems_ListsOnly(r.s, Tail(items), wraps)
                  : r \in {AggLoadList(a, ParseCoords(Head(items).k), Head(items).v.o, wraps)} })

\* the outer loop of load_from_json over the items of "spectra": a list is
\* the new format, anything else one Spectrum document of the old format
RECURSIVE AggLoadItems(_, _, _)
AggLoadItems(a, items, wraps) ==
    IF items = <<>> THEN R(a, "none", None)
    ELSE Only({ IF r.exc # "none" THEN r ELSE AggLoadItems(r.s, Tail(items), wraps)
                  : r \in {AggLoadList(a, ParseCoords(Head(items).k),
                                       IF Head(items).v.t = "list" THEN Head(items).v.o
                                       ELSE <<Head(items).v>>, wraps)} })

\* steps 2 and 3 of load_from_json on the cleared aggregate: [s, exc, ret]
AggLoadDocument(d, wraps) ==
    IF IsNone(d.json) THEN R(NoSpectra, "FileNotFoundError", None)
    ELSE IF ~Val(d.json).parsable THEN R(NoSpectra, "JSONDecodeError", None)
    ELSE Only({ IF spectra_data.t # "dict" THEN R(NoSpectra, "TypeError", None)
                ELSE IF ~HasKey(spectra_data.o, "spectra") THEN R(NoSpectra, "KeyError", None)
                ELSE IF Lookup(spectra_data.o, "spectra").t # "dict"
                     THEN R(NoSpectra, "AttributeError", None)
                ELSE AggLoadItems(NoSpectra, Lookup(spectra_data.o, "spectra").o, wraps)
                  : spectra_data \in {JsonDecode(Val(d.json).j)} })

\* the except clauses of TridimensionalSpectrum.load_from_json
AggLoadExc(e) ==
    IF e = "none" THEN "none"
    ELSE IF e \in {"FileNotFoundError", "IOError", "OSError"} THEN "IOError"
    ELSE "Exception"

\* TridimensionalSpectrum.load_from_json: [s, exc, disk]
AggLoadFromJson(a, d, compressed, wraps, fault) ==
    Only({ IF c.exc # "none" THEN [s |-> NoSpectra, exc |-> "IOError", disk |-> c.disk]
           ELSE Only({ IF r.exc # "none"
                       THEN [s |-> r.s, exc |-> AggLoadExc(r.exc), disk |-> c.disk]
                       ELSE IF ~compressed THEN [s |-> r.s, exc |-> "none", disk |-> c.disk]
                       ELSE IF fault = "unlink"
                            THEN [s |-> r.s, exc |-> "IOError", disk |-> c.disk]
                       ELSE [s |-> r.s, exc |-> "none", disk |-> [c.disk EXCEPT !.json = None]]
                         : r \in {AggLoadDocument(c.disk, wraps)} })
             : c \in {IF compressed THEN DecompressFileGz(d, fault)
                      ELSE [exc |-> "none", disk |-> d]} })

(***************************************************************************)
(* TridimensionalSpectrumViewer.calculate_intensities.  The viewer holds   *)
(* the aggregate; the region of interest and the axis values it is         *)
(* compared with are in halves.                                            *)
(***************************************************************************)
\* TridimensionalSpectrum.get_spectra: a copy of the dict of lists
get_spectra(a) == a

\* value.get_data(...) on a value of get_spectra(): the value is a list of
\* Spectrum objects, and a Python list has no attribute get_data
ListGetData(spectrum_list, use_energy, subtract_bg) ==
    [exc |-> "AttributeError", ret |-> None]

\* np.sum(y_counts[(x_axis >= range_min) & (x_axis <= range_max)])
RECURSIVE MaskedSum(_, _, _, _, _)
MaskedSum(x_axis, y_counts, unit, range_min, range_max) ==
    IF x_axis = <<>> THEN 0
    ELSE (IF unit * Head(x_axis) >= range_min /\ unit * Head(x_axis) <= range_max
          THEN Head(y_counts) ELSE 0)
         + MaskedSum(Tail(x_axis), Tail(y_counts), unit, range_min, range_max)

\* The loop of calculate_intensities over spectra.items(): [exc, data]
RECURSIVE IntensityLoop(_, _, _, _, _, _)
IntensityLoop(items, data, use_energy, subtract_bg, range_min, range_max) ==
    IF items = <<>> THEN [exc |-> "none", data |-> data]
    ELSE Only({ IF d.exc # "none" THEN [exc |-> d.exc, data |-> data]
                ELSE IntensityLoop(Tail(items),
                        IF IsNone(d.ret) THEN data
                        ELSE SetItem(data,
                                Item(Head(items).coords,
                                     MaskedSum(Val(d.ret).x, Val(d.ret).y,
                                               IF use_energy THEN 1 ELSE 2,
                                               range_min, range_max))),
                        use_energy, subtract_bg, range_min, range_max)
                  : d \in {ListGetData(Head(items).spectra, use_energy, subtract_bg)} })

\* TridimensionalSpectrumViewer.calculate_intensities: intensity_data is
\* cleared, then filled by the loop; an exception leaves the loop and is
\* printed, not raised.  [data, printed]
CalculateIntensities(a, use_energy, subtract_bg, range_min, range_max) ==
    Only({ [data |-> r.data, printed |-> r.exc]
             : r \in {IntensityLoop(get_spectra(a), <<>>, use_energy, subtract_bg,
                                    range_min, range_max)} })

(***************************************************************************)
(* Inputs of the Spectrum operations                                       *)
(***************************************************************************)
\* Elements of the count sequences callers supply: a negative, a positive and
\* 2^32 - 5, whose int32 residue is negative
CountElems == {PyInt(-2), PyInt(3), PyWide(1, -5)}
CountSeqs == SeqsUpTo(CountElems, MaxLen)
CountArgs ==
    {PyList(q) : q \in CountSeqs} \cup {NdArray(q) : q \in CountSeqs}
        \cup {PyNone, PyList(<<PyStr("x")>>)}

CalArgs ==
    { <<PyFloat(1), PyInt(10)>>, <<PyStr("a"), PyInt(0)>>, <<PyInt(1), PyNone>> }

NestedValue == PyList(<<PyNone, PyFloat(3), PyDict(<<Item("n", PyBool(TRUE))>>)>>)
MetaArgs ==
    { PyDict(<<Item("k2", NestedValue), Item("k1", PyStr("v"))>>), PyStr("not a dict") }

\* The other Spectrum of set_background: built by the constructor and set_raw_counts
StoredSeqs == SeqsUpTo({3}, MaxLen)
OtherArgs ==
    {[is_spectrum |-> FALSE, s |-> NewSpectrum], [is_spectrum |-> TRUE, s |-> NewSpectrum]}
        \cup {[is_spectrum |-> TRUE, s |-> SetRawCounts(NewSpectrum, ToList(q), TRUE).s]
                : q \in StoredSeqs}

McaFile(exists, lines) == [exists |-> exists, lines |-> lines]
McaFiles ==
    { McaFile(FALSE, <<>>),
      McaFile(TRUE, <<McaLine("data", PyNone), McaLine("int", PyInt(3)),
                      McaLine("int", PyInt(-2)), McaLine("end", PyNone)>>),
      McaFile(TRUE, <<McaLine("data", PyNone), McaLine("blank", PyNone),
                      McaLine("int", PyInt(3)), McaLine("end", PyNone),
                      McaLine("int", PyInt(3))>>),
      McaFile(TRUE, <<McaLine("int", PyInt(3)), McaLine("data", PyNone),
                      McaLine("junk", PyNone), McaLine("tag", PyNone),
                      McaLine("int", PyInt(3))>>),
      McaFile(TRUE, <<McaLine("data", PyNone), McaLine("int", PyWide(1, -5)),
                      McaLine("end", PyNone)>>),
      McaFile(TRUE, <<McaLine("data", PyNone), McaLine("int", PyInt(3)),
                      McaLine("tag", PyNone), McaLine("int", PyInt(-2)),
                      McaLine("data", PyNone), McaLine("junk", PyNone),
                      McaLine("int", PyInt(0)), McaLine("int", PyInt(3)),
                      McaLine("end", PyNone),
                      McaLine("data", PyNone), McaLine("int", PyInt(3))>>) }

(***************************************************************************)
(* JSON texts handed to load_from_json_string                              *)
(***************************************************************************)
JNumber(n) == JsonEncode(PyInt(n))
JFloat(h) == JsonEncode(PyFloat(h))
JString(s) == JsonEncode(PyStr(s))
JNull == JsonEncode(PyNone)
JArray(items) == PyVal("array", 0, 0, "", items)
JObject(items) == PyVal("object", 0, 0, "", items)
JsonText(parsable, j) == [parsable |-> parsable, j |-> j]

\* the members a document may have for one key: <<>> stands for "key absent"
CalMembers ==
    { <<>>,
      <<Item("calibration_a", JFloat(1)), Item("calibration_b", JNumber(10))>>,
      <<Item("calibration_a", JString("a")), Item("calibration_b", JNumber(0))>> }
MetaMembers ==
    { <<>>,
      <<Item("metadata", JObject(<<Item("k1", JNumber(1))>>))>>,
      <<Item("metadata", JString("not an object"))>> }
JCountLists ==
    { JArray(<<>>), JArray(<<JNumber(3)>>), JArray(<<JNumber(-2), JNumber(3)>>),
      JArray(<<JsonEncode(PyWide(1, -5))>>), JArray(<<JString("x")>>) }
RawMembers ==
    { <<>>, <<Item("raw_counts", JNull)>>, <<Item("raw_counts", JString("x"))>> }
        \cup {<<Item("raw_counts", a)>> : a \in JCountLists}
BgMembers ==
    { <<>>, <<Item("background_counts", JNull)>> }
        \cup {<<Item("background_counts", a)>> : a \in JCountLists}
VersionMember == <<Item("format_version", JString(FORMAT_VERSION))>>

\* the advisory members a document may have, and the rest of such a document
VersionMembers ==
    { <<>>, VersionMember, <<Item("format_version", JString("2.0"))>>,
      <<Item("format_version", JNumber(1))>> }
ChannelMembers ==
    { <<>>, <<Item("num_channels", JNumber(2))>>, <<Item("num_channels", JNumber(7))>>,
      <<Item("num_channels", JString("x"))>>, <<Item("num_channels", JNull)>> }
AdvisoryBodies ==
    { <<Item("raw_counts", JArray(<<JNumber(-2), JNumber(3)>>))>>,
      <<Item("calibration_a", JFloat(1)), Item("calibration_b", JNumber(10)),
        Item("metadata", JObject(<<Item("k1", JNumber(1))>>)),
        Item("raw_counts", JArray(<<JNumber(3)>>)),
        Item("background_counts", JArray(<<JNumber(3)>>))>>,
      <<Item("metadata", JObject(<<Item("k1", JNumber(1))>>))>>,
      <<Item("metadata", JString("not an object")),
        Item("raw_counts", JArray(<<JNumber(3)>>))>>,
      <<Item("raw_counts", JArray(<<JNumber(3)>>)),
        Item("background_counts", JArray(<<JString("x")>>))>> }
AdvisoryTexts ==
    { JsonText(TRUE, JObject(v \o body \o n))
        : v \in VersionMembers, body \in AdvisoryBodies, n \in ChannelMembers }

\* every combination of the members above, an unparsable text, a text that is
\* no object, and the texts with advisory members
JsonTexts ==
    { JsonText(FALSE, JNull), JsonText(TRUE, JArray(<<>>)) }
        \cup { JsonText(TRUE, JObject(VersionMember \o c \o m \o r \o b))
                 : c \in CalMembers, m \in MetaMembers, r \in RawMembers, b \in BgMembers }
        \cup AdvisoryTexts

\* the few of them the Spectrum under test is loaded from
FewJsonTexts ==
    { JsonText(FALSE, JNull) }
        \cup { JsonText(TRUE, JObject(VersionMember \o c \o r \o b))
                 : c \in {<<>>},
                   r \in {<<>>, <<Item("raw_counts", JArray(<<JNumber(-2), JNumber(3)>>))>>},
                   b \in {<<>>} \cup {<<Item("background_counts", a)>> : a \in JCountLists} }

(***************************************************************************)
(* Specification Spec: the life of one Spectrum, one action per public     *)
(* operation.  op, arg, exc and ret record the last call.                  *)
(***************************************************************************)
Init ==
    /\ sp = NewSpectrum
    /\ agg = NoSpectra
    /\ numpy_wraps \in BOOLEAN
    /\ disk = NoFiles
    /\ saved = None
    /\ saved_gz = None
    /\ intensity_data = <<>>
    /\ pre = NewSpectrum
    /\ op = "init"
    /\ arg = None
    /\ exc = "none"
    /\ ret = None

set_raw_counts ==
    \E counts \in CountArgs :
        \E r \in {SetRawCounts(sp, counts, numpy_wraps)} :
            /\ op' = "set_raw_counts" /\ arg' = counts
            /\ pre' = sp /\ sp' = r.s /\ exc' = r.exc /\ ret' = r.ret
            /\ UNCHANGED <<agg, numpy_wraps, disk, intensity_data, saved, saved_gz>>

set_calibration ==
    \E c \in CalArgs :
        \E r \in {SetCalibration(sp, c[1], c[2])} :
            /\ op' = "set_calibration" /\ arg' = c
            /\ pre' = sp /\ sp' = r.s /\ exc' = r.exc /\ ret' = r.ret
            /\ UNCHANGED <<agg, numpy_wraps, disk, intensity_data, saved, saved_gz>>

add_metadata ==
    \E metadata_dict \in MetaArgs :
        \E r \in {AddMetadata(sp, metadata_dict)} :
            /\ op' = "add_metadata" /\ arg' = metadata_dict
            /\ pre' = sp /\ sp' = r.s /\ exc' = r.exc /\ ret' = r.ret
            /\ UNCHANGED <<agg, numpy_wraps, disk, intensity_data, saved, saved_gz>>

set_background ==
    \E other \in OtherArgs :
        \E r \in {SetBackground(sp, other)} :
            /\ op' = "set_background" /\ arg' = other
            /\ pre' = sp /\ sp' = r.s /\ exc' = r.exc /\ ret' = r.ret
            /\ UNCHANGED <<agg, numpy_wraps, disk, intensity_data, saved, saved_gz>>

reset_background ==
    \E r \in {ResetBackgroundOp(sp)} :
        /\ op' = "reset_background" /\ arg' = None
        /\ pre' = sp /\ sp' = r.s /\ exc' = r.exc /\ ret' = r.ret
        /\ UNCHANGED <<agg, numpy_wraps, disk, intensity_data, saved, saved_gz>>

get_counts_without_background ==
    \E r \in {GetCountsWithoutBackground(sp)} :
        /\ op' = "get_counts_without_background" /\ arg' = None
        /\ pre' = sp /\ sp' = r.s /\ exc' = r.exc /\ ret' = r.ret
        /\ UNCHANGED <<agg, numpy_wraps, disk, intensity_data, saved, saved_gz>>

get_data ==
    \E use_energy_axis \in BOOLEAN, without_background \in BOOLEAN :
        \E r \in {GetData(sp, use_energy_axis, without_background)} :
            /\ op' = "get_data" /\ arg' = <<use_energy_axis, without_background>>
            /\ pre' = sp /\ sp' = r.s /\ exc' = r.exc /\ ret' = r.ret
            /\ UNCHANGED <<agg, numpy_wraps, disk, intensity_data, saved, saved_gz>>

load_from_mca ==
    \E file \in McaFiles :
        \E r \in {LoadFromMca(sp, file, numpy_wraps)} :
            /\ op' = "load_from_mca" /\ arg' = file
            /\ pre' = sp /\ sp' = r.s /\ exc' = r.exc /\ ret' = r.ret
            /\ UNCHANGED <<agg, numpy_wraps, disk, intensity_data, saved, saved_gz>>

load_few_json_strings ==
    \E json_string \in FewJsonTexts :
        \E r \in {LoadFromJsonString(sp, json_string, numpy_wraps)} :
            /\ op' = "load_from_json_string" /\ arg' = json_string
            /\ pre' = sp /\ sp' = r.s /\ exc' = r.exc /\ ret' = r.ret
            /\ UNCHANGED <<agg, numpy_wraps, disk, intensity_data, saved, saved_gz>>

clear ==
    \E r \in {Clear(sp)} :
        /\ op' = "clear" /\ arg' = None
        /\ pre' = sp /\ sp' = r.s /\ exc' = r.exc /\ ret' = r.ret
        /\ UNCHANGED <<agg, numpy_wraps, disk, intensity_data, saved, saved_gz>>

Next ==
    \/ set_raw_counts
    \/ set_calibration
    \/ add_metadata
    \/ set_background
    \/ reset_background
    \/ get_counts_without_background
    \/ get_data
    \/ load_from_mca
    \/ load_few_json_strings
    \/ clear

Spec == Init /\ [][Next]_vars

(***************************************************************************)
(* Claims checked under Spec                                               *)
(***************************************************************************)
AllZero(a) == \A i \in 1..Len(a) : a[i] = 0
NonNegative(a) == \A i \in 1..Len(a) : a[i] >= 0
Succeeded(name) == op = name /\ exc = "none"
Failed(name) == op = name /\ exc # "none"

\* C1: whenever raw counts exist, a background array exists and has exactly
\* the length of the raw counts, after every public operation, raising or not.
C1_BackgroundMatchesRaw ==
    ~IsNone(sp.raw_counts) =>
        /\ ~IsNone(sp.background_counts)
        /\ Len(Val(sp.background_counts)) = Len(Val(sp.raw_counts))

\* a JSON load that raised after it had stored the document's raw counts
C1_Witness ==
    /\ Failed("load_from_json_string")
    /\ ~IsNone(sp.raw_counts)
    /\ Len(Val(sp.raw_counts)) > 0
    /\ ~IsNone(pre.raw_counts)
    /\ Len(Val(pre.raw_counts)) # Len(Val(sp.raw_counts))

\* C2: every stored raw count and every stored background count is >= 0,
\* whatever integers the callers and the loaded files supplied.
C2_CountsNonNegative ==
    /\ ~IsNone(sp.raw_counts) => NonNegative(Val(sp.raw_counts))
    /\ ~IsNone(sp.background_counts) => NonNegative(Val(sp.background_counts))

\* counts were set from an array holding a negative and an out-of-range element
C2_Witness ==
    /\ Succeeded("set_raw_counts")
    /\ arg.t = "ndarray"
    /\ \E i \in 1..Len(arg.o) : arg.o[i].w = 0 /\ arg.o[i].n < 0
    /\ \E i \in 1..Len(arg.o) : arg.o[i].w > 0 /\ arg.o[i].n < 0

\* max(0, c) of the integer c a caller supplied equals the stored int32 x
IsMax0Of(x, c) ==
    IF IsNegative(c) THEN x = 0 ELSE FitsInt32(c) /\ x = c.n

StoredIsClamped ==
    /\ ~IsNone(sp.raw_counts)
    /\ Len(Val(sp.raw_counts)) = Len(arg.o)
    /\ \A i \in 1..Len(arg.o) : IsMax0Of(Val(sp.raw_counts)[i], arg.o[i])

\* C3 as stated: after set_raw_counts(c) with any integer sequence c the stored
\* counts have the length of c and element i is max(0, c[i]).
C3_Original_AnyIntegerClamped ==
    (Succeeded("set_raw_counts") /\ arg.t \in {"list", "ndarray"}) => StoredIsClamped

\* C3 amended: the same for every sequence c of integers that fit a signed
\* 32-bit integer, the element type set_raw_counts stores.
C3_Int32SequenceClamped ==
    (/\ Succeeded("set_raw_counts")
     /\ arg.t \in {"list", "ndarray"}
     /\ \A i \in 1..Len(arg.o) : arg.o[i].t = "int" /\ FitsInt32(arg.o[i]))
        => StoredIsClamped

\* a negative and a positive element, each in range, were stored (as 0 and as itself)
C3_Witness ==
    /\ Succeeded("set_raw_counts")
    /\ arg.t \in {"list", "ndarray"}
    /\ \A i \in 1..Len(arg.o) : arg.o[i].t = "int" /\ FitsInt32(arg.o[i])
    /\ \E i \in 1..Len(arg.o) : arg.o[i].n < 0 /\ Val(sp.raw_counts)[i] = 0
    /\ \E i \in 1..Len(arg.o) : arg.o[i].n > 0 /\ Val(sp.raw_counts)[i] = arg.o[i].n

\* C4: a set_raw_counts that changes the number of channels leaves a background
\* of the new length whose values are all zero, whatever the background was.
C4_LengthChangeZeroesBackground ==
    (/\ Succeeded("set_raw_counts")
     /\ ~IsNone(pre.raw_counts)
     /\ Len(Val(pre.raw_counts)) # Len(arg.o))
        => /\ ~IsNone(sp.background_counts)
           /\ Len(Val(sp.background_counts)) = Len(arg.o)
           /\ AllZero(Val(sp.background_counts))

\* the background replaced had been set to non-zero values by set_background
C4_Witness ==
    /\ Succeeded("set_raw_counts")
    /\ ~IsNone(pre.raw_counts)
    /\ ~IsNone(pre.background_counts)
    /\ ~AllZero(Val(pre.background_counts))
    /\ Len(Val(pre.raw_counts)) # Len(arg.o)
    /\ Len(arg.o) > 0

\* C5: on a Spectrum with raw counts get_counts_without_background returns a
\* sequence of the length of the raw counts whose element i is
\* max(0, raw[i] - background[i]); it is >= 0 everywhere and equals the raw
\* counts when the background is all zeros.
C5_SubtractionClipped ==
    (op = "get_counts_without_background" /\ ~IsNone(pre.raw_counts)) =>
        LET raw == Val(pre.raw_counts)
            bg == Val(pre.background_counts)
        IN  /\ exc = "none"
            /\ ~IsNone(ret)
            /\ Len(Val(ret)) = Len(raw)
            /\ \A i \in 1..Len(raw) :
                   /\ Val(ret)[i] >= 0
                   /\ Val(ret)[i] = (IF raw[i] - bg[i] < 0 THEN 0 ELSE raw[i] - bg[i])
            /\ AllZero(bg) => Val(ret) = raw

\* one channel lies below its background and another above it
C5_Witness ==
    /\ op = "get_counts_without_background"
    /\ ~IsNone(pre.raw_counts)
    /\ \E i \in 1..Len(Val(pre.raw_counts)) :
           Val(pre.raw_counts)[i] < Val(pre.background_counts)[i]
    /\ \E i \in 1..Len(Val(pre.raw_counts)) :
           Val(pre.raw_counts)[i] > Val(pre.background_counts)[i] /\ Val(ret)[i] > 0

\* C6: set_background(other) raises when other has no raw counts or a channel
\* count other than this spectrum's; a call that raises leaves raw counts,
\* background, calibration and metadata as they were; a call that returns
\* leaves the background equal to other's raw counts and the rest unchanged.
C6_SetBackgroundAllOrNothing ==
    op = "set_background" =>
        /\ (/\ arg.is_spectrum
            /\ \/ IsNone(arg.s.raw_counts)
               \/ IsNone(pre.raw_counts)
               \/ Len(Val(arg.s.raw_counts)) # Len(Val(pre.raw_counts)))
              => exc # "none"
        /\ exc # "none" => sp = pre
        /\ exc = "none" =>
              /\ sp.background_counts = arg.s.raw_counts
              /\ ~IsNone(sp.background_counts)
              /\ sp.raw_counts = pre.raw_counts
              /\ sp.cal_a = pre.cal_a /\ sp.cal_b = pre.cal_b
              /\ sp.metadata = pre.metadata

\* a mismatching background was refused while a non-zero background was installed
C6_Witness ==
    /\ Failed("set_background")
    /\ arg.is_spectrum
    /\ ~IsNone(arg.s.raw_counts)
    /\ ~IsNone(pre.raw_counts)
    /\ Len(Val(arg.s.raw_counts)) # Len(Val(pre.raw_counts))
    /\ ~AllZero(Val(pre.background_counts))

\* the position of the first <<END>> line of the file, or one past its last line
EndPos(lines) ==
    IF \E i \in 1..Len(lines) : lines[i].t = "end"
    THEN CHOOSE i \in 1..Len(lines) :
            lines[i].t = "end" /\ \A j \in 1..(i - 1) : lines[j].t # "end"
    ELSE Len(lines) + 1

\* line i is an integer line before the first <<END>>, and the last tag
\* before it is a <<DATA>>
InOpenSection(lines, i) ==
    /\ i < EndPos(lines)
    /\ lines[i].t = "int"
    /\ \E j \in 1..(i - 1) :
          /\ lines[j].t = "data"
          /\ \A k \in (j + 1)..(i - 1) : lines[k].t # "tag"

\* the values of the lines of the file that lie in an open data section, in file order
SelectedLines(lines) ==
    LET idx == SelectSeq(Tuple([i \in 1..Len(lines) |-> i]),
                         LAMBDA i : InOpenSection(lines, i))
    IN  Tuple([k \in 1..Len(idx) |-> lines[idx[k]].v])

\* C15: load_from_mca of an existing file hands to set_raw_counts exactly the
\* integer lines that lie inside an open data section before the first
\* <<END>>, in file order (the object ends as set_raw_counts of that list
\* leaves it, and holds those very values when they are non-negative int32
\* values); when there is no such line the object holds an empty count array.
C15_McaCountsAreOpenSectionIntegers ==
    (op = "load_from_mca" /\ arg.exists) =>
        LET selected == SelectedLines(arg.lines)
        IN  IF selected = <<>>
            THEN exc = "none" /\ sp.raw_counts = Some(<<>>)
            ELSE /\ sp = SetRawCounts(pre, PyList(selected), numpy_wraps).s
                 /\ exc = SetRawCounts(pre, PyList(selected), numpy_wraps).exc
                 /\ (\A i \in 1..Len(selected) :
                        selected[i].w = 0 /\ FitsInt32(selected[i]) /\ ~IsNegative(selected[i])) =>
                        (exc = "none" /\ sp.raw_counts = Some(Tuple([i \in 1..Len(selected) |-> selected[i].n])))

\* a file with a closed and re-opened data section, a skipped unparsable
\* line and lines after <<END>> was loaded
C15_Witness ==
    /\ Succeeded("load_from_mca")
    /\ arg.exists
    /\ Len(arg.lines) > EndPos(arg.lines)
    /\ \E i \in 1..Len(arg.lines) : arg.lines[i].t = "tag"
    /\ \E i \in 1..Len(arg.lines) : arg.lines[i].t = "junk"
    /\ \E i \in 1..Len(arg.lines) : arg.lines[i].t = "int" /\ ~InOpenSection(arg.lines, i)
    /\ sp.raw_counts = Some(<<3, 0, 3>>)

\* C16: load_from_mca leaves the calibration (a, b) and the metadata as they
\* were before the call, whether the file holds data, holds no data line, or
\* is missing.
C16_McaLoadKeepsCalibrationAndMetadata ==
    op = "load_from_mca" =>
        /\ sp.cal_a = pre.cal_a
        /\ sp.cal_b = pre.cal_b
        /\ sp.metadata = pre.metadata

\* a Spectrum with its own calibration and metadata loaded new counts from a file
C16_Witness ==
    /\ Succeeded("load_from_mca")
    /\ pre.cal_a # NewSpectrum.cal_a
    /\ pre.cal_b # NewSpectrum.cal_b
    /\ pre.metadata # <<>>
    /\ sp.raw_counts # pre.raw_counts
    /\ ~IsNone(sp.raw_counts) /\ Val(sp.raw_counts) # <<>>

\* C20: get_data returns None exactly when the Spectrum has no raw counts;
\* otherwise it returns an x axis and y values of N = num_channels elements
\* each, where x[i] is i on the channel axis and a*i + b (in halves) on the
\* energy axis, and y[i] is the raw count, or the raw count minus the
\* background count clipped at 0 when without_background is requested.
C20_GetDataAxes ==
    op = "get_data" =>
        /\ exc = "none"
        /\ IsNone(ret) <=> IsNone(pre.raw_counts)
        /\ ~IsNone(ret) =>
              LET N == get_num_channels(pre)
                  raw == Val(pre.raw_counts)
                  bg == Val(pre.background_counts)
              IN  /\ Len(Val(ret).x) = N
                  /\ Len(Val(ret).y) = N
                  /\ \A i \in 0..(N - 1) :
                        /\ Val(ret).x[i + 1] = IF arg[1] THEN pre.cal_a * i + pre.cal_b ELSE i
                        /\ Val(ret).y[i + 1] =
                              IF ~arg[2] THEN raw[i + 1]
                              ELSE IF raw[i + 1] - bg[i + 1] < 0 THEN 0
                              ELSE raw[i + 1] - bg[i + 1]

\* calibration (0.5, 10) on a 3-channel Spectrum: the energy axis is
\* [10.0, 10.5, 11.0], here in halves
C20_Witness ==
    /\ op = "get_data"
    /\ arg[1]
    /\ pre.cal_a = 1 /\ pre.cal_b = 20
    /\ get_num_channels(pre) = 3
    /\ ~IsNone(ret)
    /\ Val(ret).x = <<20, 21, 22>>
    /\ Val(ret).y = <<3, 0, 3>>

\* C27: a set_raw_counts or load_from_mca that returns with as many channels as
\* the background had leaves the background as it was; a background that was not
\* all zero changes only through set_background, reset_background, clear, a JSON
\* load, or a set_raw_counts / load_from_mca that changes the channel count.
C27_BackgroundSurvivesSameLength ==
    /\ ( /\ op \in {"set_raw_counts", "load_from_mca"}
         /\ exc = "none"
         /\ ~IsNone(pre.background_counts)
         /\ get_num_channels(sp) = Len(Val(pre.background_counts)) )
       => sp.background_counts = pre.background_counts
    /\ ( /\ op # "init"
         /\ ~IsNone(pre.background_counts)
         /\ ~AllZero(Val(pre.background_counts))
         /\ sp.background_counts # pre.background_counts )
       => \/ op \in {"set_background", "reset_background", "clear", "load_from_json_string"}
          \/ /\ op \in {"set_raw_counts", "load_from_mca"}
             /\ get_num_channels(sp) # Len(Val(pre.background_counts))

\* new raw counts of the same length were set over a non-zero background
C27_Witness ==
    /\ Succeeded("set_raw_counts")
    /\ ~IsNone(pre.background_counts)
    /\ ~AllZero(Val(pre.background_counts))
    /\ sp.raw_counts # pre.raw_counts
    /\ sp.background_counts = pre.background_counts

(***************************************************************************)
(* Specification SpecJson: load_from_json_string applied once to a         *)
(* Spectrum in one of a few states the public operations build, with       *)
(* every JSON text of JsonTexts.                                           *)
(***************************************************************************)
\* Spectrum(); set_calibration(a, b); add_metadata(m); set_raw_counts(counts);
\* set_background(Spectrum with raw counts bg)
Built(a, b, m, counts, bg) ==
    LET s1 == SetCalibration(NewSpectrum, a, b).s
        s2 == AddMetadata(s1, m).s
        s3 == SetRawCounts(s2, counts, TRUE).s
        other == SetRawCounts(NewSpectrum, bg, TRUE).s
    IN  SetBackground(s3, [is_spectrum |-> TRUE, s |-> other]).s

SampleMetadata == PyDict(<<Item("k2", NestedValue), Item("k1", PyStr("v"))>>)

StartSpectra ==
    { NewSpectrum,
      SetRawCounts(NewSpectrum, PyList(<<PyInt(3)>>), TRUE).s,
      Built(PyFloat(1), PyInt(10), SampleMetadata,
            PyList(<<PyInt(3), PyInt(0)>>), PyList(<<PyInt(0), PyInt(3)>>)),
      Built(PyInt(2), PyFloat(-3), PyDict(<<Item("k3", PyStr("w"))>>),
            PyList(<<>>), PyList(<<>>)) }

InitJson ==
    /\ sp \in StartSpectra
    /\ agg = NoSpectra
    /\ numpy_wraps \in BOOLEAN
    /\ disk = NoFiles
    /\ saved = None
    /\ saved_gz = None
    /\ intensity_data = <<>>
    /\ pre = sp
    /\ op = "init"
    /\ arg = None
    /\ exc = "none"
    /\ ret = None

load_from_json_string ==
    /\ op = "init"
    /\ \E json_string \in JsonTexts :
        \E r \in {LoadFromJsonString(sp, json_string, numpy_wraps)} :
            /\ op' = "load_from_json_string" /\ arg' = json_string
            /\ pre' = sp /\ sp' = r.s /\ exc' = r.exc /\ ret' = r.ret
            /\ UNCHANGED <<agg, numpy_wraps, disk, intensity_data, saved, saved_gz>>

NextJson == load_from_json_string

SpecJson == InitJson /\ [][NextJson]_vars

(***************************************************************************)
(* Claims checked under SpecJson                                           *)
(***************************************************************************)
AtDefaults(s) ==
    /\ IsNone(s.raw_counts)
    /\ IsNone(s.background_counts)
    /\ s.cal_a = FloatOfInt(1) /\ s.cal_b = 0
    /\ s.metadata = <<>>

\* C7 as stated: a failed load_from_json_string leaves no raw counts, no
\* background, calibration (1.0, 0.0) and empty metadata.
C7_Original_FailedLoadLeavesDefaults ==
    Failed("load_from_json_string") => AtDefaults(sp)

\* what the rejected text says, read off its JSON value tree
JIsNumeric(j) == j.t \in {"number", "true", "false"}
JMember(text, key, default) == DictGet(text.j.o, key, default)
JCalibrationOk(text) ==
    /\ JIsNumeric(JMember(text, "calibration_a", JFloat(FloatOfInt(1))))
    /\ JIsNumeric(JMember(text, "calibration_b", JFloat(0)))
JMetadataOk(text) == JMember(text, "metadata", JObject(<<>>)).t = "object"
JConvertible(array, wraps) ==
    \A i \in 1..Len(array.o) :
        /\ array.o[i].t = "number"
        /\ array.o[i].w = 0 \/ wraps
JRawOk(text, wraps) ==
    /\ JMember(text, "raw_counts", JNull).t = "array"
    /\ JConvertible(JMember(text, "raw_counts", JNull), wraps)

\* C7 amended: a failed load_from_json_string leaves nothing of the state held
\* before, and leaves the empty defaults when the text is unparsable, is not
\* an object or has a non-numeric calibration; a text rejected later leaves
\* its own calibration stored, its metadata too unless the metadata is what
\* was malformed, and no counts and no background unless it was the
\* background array that could not be converted: then the text's raw counts
\* are stored with a zero background.
C7_FailedLoadKeepsOnlyTextFields ==
    Failed("load_from_json_string") =>
        IF ~arg.parsable \/ arg.j.t # "object" \/ ~JCalibrationOk(arg)
        THEN AtDefaults(sp)
        ELSE /\ sp.cal_a = JMember(arg, "calibration_a", JFloat(FloatOfInt(1))).n
                              * (IF JMember(arg, "calibration_a", JFloat(0)).s = "float" THEN 1 ELSE 2)
             /\ sp.cal_b = JMember(arg, "calibration_b", JFloat(0)).n
                              * (IF JMember(arg, "calibration_b", JFloat(0)).s = "float" THEN 1 ELSE 2)
             /\ IF ~JMetadataOk(arg)
                THEN sp.metadata = <<>> /\ IsNone(sp.raw_counts) /\ IsNone(sp.background_counts)
                ELSE /\ sp.metadata = JsonDecode(JMember(arg, "metadata", JObject(<<>>))).o
                     /\ IF ~JRawOk(arg, numpy_wraps)
                        THEN IsNone(sp.raw_counts) /\ IsNone(sp.background_counts)
                        ELSE /\ JMember(arg, "background_counts", JNull).t = "array"
                             /\ ~JConvertible(JMember(arg, "background_counts", JNull), numpy_wraps)
                             /\ ~IsNone(sp.raw_counts)
                             /\ Len(Val(sp.raw_counts)) = Len(JMember(arg, "raw_counts", JNull).o)
                             /\ \A i \in 1..Len(Val(sp.raw_counts)) :
                                    Val(sp.raw_counts)[i]
                                        = (IF JMember(arg, "raw_counts", JNull).o[i].n < 0 THEN 0
                                           ELSE JMember(arg, "raw_counts", JNull).o[i].n)
                             /\ ~IsNone(sp.background_counts)
                             /\ Len(Val(sp.background_counts)) = Len(Val(sp.raw_counts))
                             /\ AllZero(Val(sp.background_counts))

\* a text without raw_counts was rejected by a Spectrum that held counts, a
\* background and metadata: the text's calibration and metadata are now stored
C7_Witness ==
    /\ Failed("load_from_json_string")
    /\ ~IsNone(pre.raw_counts)
    /\ pre.metadata # <<>>
    /\ arg.parsable
    /\ arg.j.t = "object"
    /\ ~HasKey(arg.j.o, "raw_counts")
    /\ HasKey(arg.j.o, "calibration_a")
    /\ sp.cal_a # pre.cal_a
    /\ sp.metadata # <<>>
    /\ sp.metadata # pre.metadata
    /\ IsNone(sp.raw_counts)

\* the calibration a JSON number stands for, in halves
JHalves(j) == j.n * (IF j.s = "float" THEN 1 ELSE 2)
\* the counts set_raw_counts stores for a JSON array of int32 numbers
JStored(array) ==
    Tuple([i \in 1..Len(array.o) |-> IF array.o[i].n < 0 THEN 0 ELSE array.o[i].n])

\* C18: a document whose calibration, metadata and raw_counts load, and
\* whose background_counts is an array of int32 numbers of another length
\* than raw_counts, is loaded without an exception: the Spectrum holds the
\* document's raw counts, calibration and metadata, and a background of zeros
\* as long as the raw counts.
C18_MismatchedBackgroundIsZeroed ==
    (/\ op = "load_from_json_string"
     /\ arg.parsable /\ arg.j.t = "object"
     /\ JCalibrationOk(arg) /\ JMetadataOk(arg) /\ JRawOk(arg, numpy_wraps)
     /\ JMember(arg, "background_counts", JNull).t = "array"
     /\ JConvertible(JMember(arg, "background_counts", JNull), numpy_wraps)
     /\ Len(JMember(arg, "background_counts", JNull).o) # Len(JMember(arg, "raw_counts", JNull).o)) =>
        /\ exc = "none"
        /\ sp.raw_counts = Some(JStored(JMember(arg, "raw_counts", JNull)))
        /\ sp.background_counts = Some(ZerosLike(JStored(JMember(arg, "raw_counts", JNull))))
        /\ sp.cal_a = JHalves(JMember(arg, "calibration_a", JFloat(FloatOfInt(1))))
        /\ sp.cal_b = JHalves(JMember(arg, "calibration_b", JFloat(0)))
        /\ sp.metadata = JsonDecode(JMember(arg, "metadata", JObject(<<>>))).o

\* a document with two raw counts, one non-zero background count, its own
\* calibration and metadata was loaded
C18_Witness ==
    /\ Succeeded("load_from_json_string")
    /\ arg.parsable /\ arg.j.t = "object"
    /\ Len(JMember(arg, "raw_counts", JNull).o) = 2
    /\ JMember(arg, "background_counts", JNull).t = "array"
    /\ JMember(arg, "background_counts", JNull).o = <<JNumber(3)>>
    /\ HasKey(arg.j.o, "calibration_a")
    /\ HasKey(arg.j.o, "metadata")
    /\ sp.raw_counts = Some(<<0, 3>>)
    /\ sp.background_counts = Some(<<0, 0>>)
    /\ sp.cal_b = 20
    /\ sp.metadata # <<>>

\* the document without its advisory members format_version and num_channels
WithoutAdvisory(text) ==
    JsonText(TRUE, JObject(SelectSeq(text.j.o,
                                     LAMBDA it : it.k \notin {"format_version", "num_channels"})))

\* C19: a document is loaded exactly as the document without its
\* format_version and num_channels members is: both loads succeed or both
\* fail, a successful load leaves the same Spectrum, and get_num_channels is
\* then the length of the raw_counts array whatever the num_channels member says.
C19_AdvisoryFieldsNeverDecide ==
    (op = "load_from_json_string" /\ arg.parsable /\ arg.j.t = "object") =>
        \E r \in {LoadFromJsonString(pre, WithoutAdvisory(arg), numpy_wraps)} :
            /\ (exc = "none") <=> (r.exc = "none")
            /\ exc = "none" =>
                  /\ sp = r.s
                  /\ get_num_channels(sp) = Len(JMember(arg, "raw_counts", JNull).o)

\* a document of another format version, whose num_channels is not the
\* length of its raw_counts, was loaded: both warnings were logged
C19_Witness ==
    /\ Succeeded("load_from_json_string")
    /\ arg.parsable /\ arg.j.t = "object"
    /\ VersionWarning(JsonDecode(arg.j))
    /\ HasKey(arg.j.o, "format_version")
    /\ ChannelsWarning(sp, JsonDecode(arg.j))
    /\ JMember(arg, "num_channels", JNull) = JNumber(7)
    /\ get_num_channels(sp) = 2
    /\ sp = LoadFromJsonString(pre, WithoutAdvisory(arg), numpy_wraps).s

(***************************************************************************)
(* Specification SpecDisk: a Spectrum is edited and saved with             *)
(* save_as_json, and a fresh Spectrum loads the file with load_from_json.  *)
(* saved remembers the Spectrum as it was when the file was last written;  *)
(* ret is the fresh Spectrum after its load.                               *)
(***************************************************************************)
InitDisk ==
    /\ sp \in StartSpectra
    /\ agg = NoSpectra
    /\ numpy_wraps \in BOOLEAN
    /\ disk = NoFiles
    /\ saved = None
    /\ saved_gz = None
    /\ intensity_data = <<>>
    /\ pre = sp
    /\ op = "init"
    /\ arg = None
    /\ exc = "none"
    /\ ret = None

save_as_json ==
    \E r \in {SaveAsJson(sp, disk)} :
        /\ op' = "save_as_json" /\ arg' = None
        /\ pre' = sp /\ exc' = r.exc /\ ret' = None
        /\ disk' = r.disk
        /\ saved' = IF r.exc = "none" THEN Some(sp) ELSE saved
        /\ UNCHANGED <<sp, agg, numpy_wraps, intensity_data, saved_gz>>

\* Spectrum().load_from_json(filename)
load_from_json ==
    \E r \in {LoadFromJson(NewSpectrum, FileAt(disk), numpy_wraps)} :
        /\ op' = "load_from_json" /\ arg' = None
        /\ pre' = sp /\ exc' = r.exc /\ ret' = Some(r.s)
        /\ UNCHANGED <<sp, agg, numpy_wraps, disk, intensity_data, saved, saved_gz>>

NextDisk ==
    \/ set_calibration
    \/ add_metadata
    \/ set_background
    \/ clear
    \/ save_as_json
    \/ load_from_json

SpecDisk == InitDisk /\ [][NextDisk]_vars

(***************************************************************************)
(* Claims checked under SpecDisk                                           *)
(***************************************************************************)
\* C8: the fresh Spectrum that load_from_json filled from a file written by
\* save_as_json has the num_channels, calibration, raw counts, background and
\* metadata (keys, values, key order) of the Spectrum that was saved.
C8_JsonRoundTrip ==
    (Succeeded("load_from_json") /\ ~IsNone(saved)) =>
        /\ get_num_channels(Val(ret)) = get_num_channels(Val(saved))
        /\ Val(ret).cal_a = Val(saved).cal_a
        /\ Val(ret).cal_b = Val(saved).cal_b
        /\ Val(ret).raw_counts = Val(saved).raw_counts
        /\ Val(ret).background_counts = Val(saved).background_counts
        /\ Val(ret).metadata = Val(saved).metadata

\* a Spectrum with a non-zero background, its own calibration and nested
\* metadata was saved, edited afterwards, and the file loaded
C8_Witness ==
    /\ Succeeded("load_from_json")
    /\ ~IsNone(saved)
    /\ ~AllZero(Val(Val(saved).background_counts))
    /\ Val(saved).cal_b # 0
    /\ HasKey(Val(saved).metadata, "k2")
    /\ sp # Val(saved)
    /\ Val(ret) = Val(saved)

(***************************************************************************)
(* Specification SpecFolder: a TridimensionalSpectrum is grown with        *)
(* add_new_spectrum and add_new_spectrum_from_file, cleared, and loaded    *)
(* from folders.  pre is the aggregate before the last call.               *)
(***************************************************************************)
Entry(kind, suffix, text, children) ==
    [kind |-> kind, suffix |-> suffix, text |-> text, children |-> children]

\* the text save_as_json writes for a Spectrum with one channel and the given metadata
SavedText(metadata, counts) ==
    JsonDumps(GetAsJson(Built(PyFloat(1), PyInt(10), PyDict(metadata), counts, counts)))

PositionMetadata ==
    <<Item("position", PyDict(<<Item("x", PyInt(1)), Item("y", PyStr("0.5")),
                                Item("z", PyFloat(1))>>))>>
XyzMetadata == <<Item("x", PyFloat(2)), Item("y", PyFloat(1)), Item("z", PyStr("0.5"))>>
OriginMetadata == <<Item("k1", PyStr("v")), Item("x", PyInt(0)), Item("y", PyInt(0)),
                    Item("z", PyInt(0))>>
NoCoordsMetadata == <<Item("k1", PyStr("v")), Item("x", PyInt(0))>>

PositionFile == Entry("file", ".json", SavedText(PositionMetadata, PyList(<<PyInt(3)>>)), <<>>)
XyzFile == Entry("file", ".json", SavedText(XyzMetadata, PyList(<<PyInt(0), PyInt(3)>>)), <<>>)
OriginFile == Entry("file", ".json", SavedText(OriginMetadata, PyList(<<PyInt(3)>>)), <<>>)
NoCoordsFile == Entry("file", ".json", SavedText(NoCoordsMetadata, PyList(<<PyInt(3)>>)), <<>>)
TextFile == Entry("file", ".txt", SavedText(OriginMetadata, PyList(<<PyInt(0)>>)), <<>>)
SubDirectory == Entry("dir", ".json", JsonDumps(PyNone), <<PositionFile>>)
MissingFile == Entry("missing", ".json", JsonDumps(PyNone), <<>>)
UnparsableFile == Entry("file", ".json", JsonText(FALSE, JNull), <<>>)

\* files whose metadata has a position field and top-level x, y, z with other values:
\* a full position, a position that is no object, a position without z
BothMetadata == PositionMetadata \o XyzMetadata
ScalarPositionMetadata == <<Item("position", PyInt(1))>> \o XyzMetadata
PartialPositionMetadata ==
    <<Item("position", PyDict(<<Item("x", PyInt(1)), Item("y", PyInt(1))>>))>> \o XyzMetadata
BothFile == Entry("file", ".json", SavedText(BothMetadata, PyList(<<PyInt(3)>>)), <<>>)
ScalarPositionFile ==
    Entry("file", ".json", SavedText(ScalarPositionMetadata, PyList(<<PyInt(3)>>)), <<>>)
PartialPositionFile ==
    Entry("file", ".json", SavedText(PartialPositionMetadata, PyList(<<PyInt(3)>>)), <<>>)

\* what a directory may contain
FolderEntries == {PositionFile, OriginFile, NoCoordsFile, TextFile, SubDirectory}
\* the paths handed to load_from_folder
Folders ==
    {Entry("dir", "", JsonDumps(PyNone), c) : c \in SeqsUpTo(FolderEntries, MaxFiles)}
        \cup {MissingFile, PositionFile}
\* the paths handed to add_new_spectrum_from_file
FileEntries == {XyzFile, NoCoordsFile, TextFile, SubDirectory, MissingFile, UnparsableFile}

\* the Spectrum objects and coordinates handed to add_new_spectrum
NewSpectra == {SetRawCounts(NewSpectrum, PyList(<<PyInt(3)>>), TRUE).s}
NewCoords == {<<4, 4, 4>>}

InitFolder ==
    /\ sp = NewSpectrum
    /\ agg = NoSpectra
    /\ numpy_wraps \in BOOLEAN
    /\ disk = NoFiles
    /\ saved = None
    /\ saved_gz = None
    /\ intensity_data = <<>>
    /\ pre = NoSpectra
    /\ op = "init"
    /\ arg = None
    /\ exc = "none"
    /\ ret = None

agg_clear ==
    \E r \in {AggClear(agg)} :
        /\ op' = "clear" /\ arg' = None
        /\ pre' = agg /\ agg' = r.s /\ exc' = r.exc /\ ret' = r.ret
        /\ UNCHANGED <<sp, numpy_wraps, disk, intensity_data, saved, saved_gz>>

add_new_spectrum ==
    /\ get_num_spectra(agg) < MaxSpectra
    /\ \E spectrum \in NewSpectra, coords \in NewCoords :
        \E r \in {AddNewSpectrum(agg, spectrum, coords)} :
            /\ op' = "add_new_spectrum" /\ arg' = <<spectrum, coords>>
            /\ pre' = agg /\ agg' = r.s /\ exc' = r.exc /\ ret' = r.ret
            /\ UNCHANGED <<sp, numpy_wraps, disk, intensity_data, saved, saved_gz>>

add_new_spectrum_from_file ==
    /\ get_num_spectra(agg) < MaxSpectra
    /\ \E file_path \in FileEntries :
        \E r \in {AddNewSpectrumFromFile(agg, file_path, numpy_wraps)} :
            /\ op' = "add_new_spectrum_from_file" /\ arg' = file_path
            /\ pre' = agg /\ agg' = r.s /\ exc' = r.exc /\ ret' = r.ret
            /\ UNCHANGED <<sp, numpy_wraps, disk, intensity_data, saved, saved_gz>>

load_from_folder ==
    \E folder_path \in Folders :
        \E r \in {LoadFromFolder(agg, folder_path, numpy_wraps)} :
            /\ op' = "load_from_folder" /\ arg' = folder_path
            /\ pre' = agg /\ agg' = r.s /\ exc' = r.exc /\ ret' = r.ret
            /\ UNCHANGED <<sp, numpy_wraps, disk, intensity_data, saved, saved_gz>>

NextFolder ==
    \/ agg_clear
    \/ add_new_spectrum
    \/ add_new_spectrum_from_file
    \/ load_from_folder

SpecFolder == InitFolder /\ [][NextFolder]_vars

(***************************************************************************)
(* Claims checked under SpecFolder                                         *)
(***************************************************************************)
\* the regular files directly inside the folder whose suffix is .json, in iteration order
IsRegularJson(f) == f.kind = "file" /\ f.suffix = ".json"
RegularJsonFiles(folder) == SelectSeq(folder.children, IsRegularJson)

\* what one file holds: the Spectrum a fresh object loads from it, the
\* coordinate its metadata gives, and whether ingesting it alone succeeds
FileSpectrum(f) == LoadFromJson(NewSpectrum, f, numpy_wraps).s
FileCoords(f) == DeriveCoords(FileSpectrum(f).metadata).coords
FileIngests(f) == AddNewSpectrumFromFile(NoSpectra, f, numpy_wraps).exc = "none"

\* the Spectrum objects of the files whose coordinate is c, in the files' order
SpectraOfFilesAt(files, c) ==
    LET At(f) == FileCoords(f) = c
        at == SelectSeq(files, At)
    IN  [i \in 1..Len(at) |-> FileSpectrum(at[i])]

\* aggregate a holds one Spectrum per file of files, each at its file's
\* coordinate, and nothing else
HoldsExactly(a, files) ==
    /\ get_num_spectra(a) = Len(files)
    /\ CoordsOf(a) = {FileCoords(files[i]) : i \in 1..Len(files)}
    /\ Len(a) = Cardinality(CoordsOf(a))
    /\ \A c \in CoordsOf(a) : get_spectra_at_position(a, c) = SpectraOfFilesAt(files, c)

\* files[k] is the first file that fails to ingest
FirstFailure(files, k) ==
    /\ ~FileIngests(files[k])
    /\ \A i \in 1..(k - 1) : FileIngests(files[i])

\* C9 as stated: after load_from_folder raised on a file, the aggregate does
\* not hold just the spectra of the files ingested before the failing one.
C9_Original_NoPartialLoad ==
    (Failed("load_from_folder") /\ arg.kind = "dir") =>
        ~ \E k \in 2..Len(RegularJsonFiles(arg)) :
              /\ FirstFailure(RegularJsonFiles(arg), k)
              /\ HoldsExactly(agg, SubSeq(RegularJsonFiles(arg), 1, k - 1))

\* C9 amended: load_from_folder of a directory raises exactly when one of its
\* .json files fails to ingest; it stops at the first such file, and the
\* aggregate then holds the spectra of the files ingested before that file
\* and nothing else: nothing of later files, nothing held before the call.
C9_FailureKeepsIngestedPrefix ==
    (op = "load_from_folder" /\ arg.kind = "dir") =>
        /\ exc # "none" <=>
              \E k \in 1..Len(RegularJsonFiles(arg)) : ~FileIngests(RegularJsonFiles(arg)[k])
        /\ exc # "none" =>
              \E k \in 1..Len(RegularJsonFiles(arg)) :
                  /\ FirstFailure(RegularJsonFiles(arg), k)
                  /\ HoldsExactly(agg, SubSeq(RegularJsonFiles(arg), 1, k - 1))

\* an aggregate that held a spectrum loaded a folder whose second file has no
\* coordinates: the call raised and the first file's Spectrum is what it holds
C9_Witness ==
    /\ Failed("load_from_folder")
    /\ arg.kind = "dir"
    /\ Len(arg.children) = 2
    /\ FileIngests(arg.children[1])
    /\ ~FileIngests(arg.children[2])
    /\ <<4, 4, 4>> \in CoordsOf(pre)
    /\ get_num_spectra(agg) = 1
    /\ CoordsOf(agg) = {<<2, 1, 1>>}

\* C10: after a successful load_from_folder the aggregate holds exactly one
\* Spectrum per regular .json file directly inside the directory, each at the
\* coordinate its metadata gives, and no spectrum held before the call.
C10_FolderLoadedExactly ==
    Succeeded("load_from_folder") => HoldsExactly(agg, RegularJsonFiles(arg))

\* an aggregate that held a spectrum at (2.0, 2.0, 2.0) loaded a folder with one
\* .json file and a sub-directory that has a .json file inside
C10_Witness ==
    /\ Succeeded("load_from_folder")
    /\ <<4, 4, 4>> \in CoordsOf(pre)
    /\ Len(arg.children) = 2
    /\ \E i \in 1..2 : arg.children[i].kind = "dir" /\ arg.children[i].children # <<>>
    /\ get_num_spectra(agg) = 1
    /\ CoordsOf(agg) = {<<0, 0, 0>>}
    /\ Val(get_spectra_at_position(agg, <<0, 0, 0>>)[1].raw_counts) = <<3>>

\* the metadata object of the document in a file, read off its JSON value tree
JMetadataOf(file) == JMember(file.text, "metadata", JObject(<<>>)).o
LacksCoordinates(file) ==
    /\ ~HasKey(JMetadataOf(file), "position")
    /\ ~(HasKey(JMetadataOf(file), "x") /\ HasKey(JMetadataOf(file), "y")
            /\ HasKey(JMetadataOf(file), "z"))

\* C11: add_new_spectrum_from_file on a .json file whose document loads but
\* whose metadata has neither position nor all of x, y, z raises ValueError
\* and leaves the aggregate as it was: no coordinate added, no list extended.
C11_MissingCoordinatesRejected ==
    (/\ op = "add_new_spectrum_from_file"
     /\ IsRegularJson(arg)
     /\ LoadFromJson(NewSpectrum, arg, numpy_wraps).exc = "none"
     /\ LacksCoordinates(arg))
        => exc = "ValueError" /\ agg = pre

\* a file with only x in its metadata was offered to an aggregate that held a spectrum
C11_Witness ==
    /\ op = "add_new_spectrum_from_file"
    /\ IsRegularJson(arg)
    /\ LoadFromJson(NewSpectrum, arg, numpy_wraps).exc = "none"
    /\ LacksCoordinates(arg)
    /\ HasKey(JMetadataOf(arg), "x")
    /\ exc = "ValueError"
    /\ get_num_spectra(pre) = 1
    /\ agg = pre

\* C26: load_from_folder raises FileNotFoundError for a path that does not exist
\* and ValueError for an existing path that is no directory, and leaves the
\* aggregate as it was in both cases.
C26_Original_MissingFolderIsNotFound ==
    op = "load_from_folder" =>
        /\ arg.kind = "missing" => (exc = "FileNotFoundError" /\ agg = pre)
        /\ arg.kind = "file" => (exc = "ValueError" /\ agg = pre)

(***************************************************************************)
(* Specification SpecViewer: an aggregate is filled with add_new_spectrum  *)
(* and the viewer that holds it computes the intensities of a region of    *)
(* interest.  After calculate_intensities, ret holds the error it printed. *)
(***************************************************************************)
\* the Spectrum objects and coordinates handed to add_new_spectrum
ViewSpectra ==
    { SetRawCounts(NewSpectrum, PyList(<<PyInt(3)>>), TRUE).s,
      Built(PyFloat(1), PyInt(10), PyDict(<<>>),
            PyList(<<PyInt(3), PyInt(0)>>), PyList(<<PyInt(0), PyInt(3)>>)) }
ViewCoords == {<<0, 0, 0>>, <<2, 1, 1>>}
\* the regions of interest [min, max], in halves
Rois == {<<0, 100>>, <<2, 2>>}

InitViewer ==
    /\ sp = NewSpectrum
    /\ agg = NoSpectra
    /\ numpy_wraps \in BOOLEAN
    /\ disk = NoFiles
    /\ saved = None
    /\ saved_gz = None
    /\ intensity_data = <<>>
    /\ pre = NoSpectra
    /\ op = "init"
    /\ arg = None
    /\ exc = "none"
    /\ ret = None

add_new_spectrum_to_view ==
    /\ get_num_spectra(agg) < MaxSpectra
    /\ \E spectrum \in ViewSpectra, coords \in ViewCoords :
        \E r \in {AddNewSpectrum(agg, spectrum, coords)} :
            /\ op' = "add_new_spectrum" /\ arg' = <<spectrum, coords>>
            /\ pre' = agg /\ agg' = r.s /\ exc' = r.exc /\ ret' = r.ret
            /\ UNCHANGED <<sp, numpy_wraps, disk, intensity_data, saved, saved_gz>>

calculate_intensities ==
    \E use_energy \in BOOLEAN, subtract_bg \in BOOLEAN, roi \in Rois :
        \E r \in {CalculateIntensities(agg, use_energy, subtract_bg, roi[1], roi[2])} :
            /\ op' = "calculate_intensities"
            /\ arg' = [use_energy |-> use_energy, subtract_bg |-> subtract_bg,
                       range_min |-> roi[1], range_max |-> roi[2]]
            /\ pre' = agg /\ exc' = "none"
            /\ ret' = IF r.printed # "none" THEN Some(r.printed) ELSE None
            /\ intensity_data' = r.data
            /\ UNCHANGED <<sp, agg, numpy_wraps, disk, saved, saved_gz>>

NextViewer ==
    \/ agg_clear
    \/ add_new_spectrum_to_view
    \/ calculate_intensities

SpecViewer == InitViewer /\ [][NextViewer]_vars

(***************************************************************************)
(* Claims checked under SpecViewer                                         *)
(***************************************************************************)
\* the region of interest of the last calculate_intensities covers the whole axis of s
RoiCoversAxis(s) ==
    LET d == Val(GetData(s, arg.use_energy, arg.subtract_bg).ret)
    IN  \A j \in 1..Len(d.x) :
            /\ (IF arg.use_energy THEN 1 ELSE 2) * d.x[j] >= arg.range_min
            /\ (IF arg.use_energy THEN 1 ELSE 2) * d.x[j] <= arg.range_max

\* C12 as stated: after calculate_intensities, a coordinate that holds one
\* Spectrum whose whole axis lies inside the region of interest has as its
\* intensity the sum of the raw counts, or of get_counts_without_background()
\* when background subtraction is on.
C12_Original_FullRoiIntensityIsSum ==
    op = "calculate_intensities" =>
        \A i \in 1..Len(agg) :
            (Len(agg[i].spectra) = 1 /\ RoiCoversAxis(agg[i].spectra[1])) =>
                /\ HasKey(intensity_data, agg[i].coords)
                /\ Lookup(intensity_data, agg[i].coords) =
                      SumSeq(IF arg.subtract_bg
                             THEN Val(GetCountsWithoutBackground(agg[i].spectra[1]).ret)
                             ELSE Val(agg[i].spectra[1].raw_counts))

(***************************************************************************)
(* Specification SpecGz: a Spectrum is edited and saved, plainly or        *)
(* compressed, and a fresh Spectrum loads the compressed file.  After a    *)
(* compressed load, arg.disk is the file system as the load found it and   *)
(* ret the fresh Spectrum after the load.                                  *)
(***************************************************************************)
CompressLevels == {-1, 0, 9, 10}

InitGz ==
    /\ sp \in StartSpectra
    /\ agg = NoSpectra
    /\ numpy_wraps \in BOOLEAN
    /\ disk = NoFiles
    /\ saved = None
    /\ saved_gz = None
    /\ intensity_data = <<>>
    /\ pre = sp
    /\ op = "init"
    /\ arg = None
    /\ exc = "none"
    /\ ret = None

\* sp.save_as_json(filename, compressed=True, compresslevel)
save_as_json_gz ==
    \E compresslevel \in CompressLevels, fault \in Faults :
        \E r \in {SaveAsJsonGz(sp, disk, compresslevel, fault)} :
            /\ op' = "save_as_json_gz"
            /\ arg' = [compresslevel |-> compresslevel, fault |-> fault]
            /\ pre' = sp /\ exc' = r.exc /\ ret' = None
            /\ disk' = r.disk
            /\ saved' = IF IsNone(sp.raw_counts) THEN saved
                        ELSE IF IsNone(r.disk.json) THEN None ELSE Some(sp)
            /\ saved_gz' = IF IsNone(sp.raw_counts) \/ r.disk.gz = disk.gz THEN saved_gz
                           ELSE IF IsNone(Val(r.disk.gz).member) THEN None ELSE Some(sp)
            /\ UNCHANGED <<sp, agg, numpy_wraps, intensity_data>>

\* Spectrum().load_from_json(filename, compressed=True)
load_from_json_gz ==
    \E fault \in Faults :
        \E r \in {LoadFromJsonGz(NewSpectrum, disk, numpy_wraps, fault)} :
            /\ op' = "load_from_json_gz"
            /\ arg' = [fault |-> fault, disk |-> disk]
            /\ pre' = sp /\ exc' = r.exc /\ ret' = Some(r.s)
            /\ disk' = r.disk
            /\ saved' = IF r.disk.json = disk.json THEN saved
                        ELSE IF ~IsNone(disk.gz) /\ r.disk.json = Val(disk.gz).member
                             THEN saved_gz ELSE None
            /\ UNCHANGED <<sp, agg, numpy_wraps, intensity_data, saved_gz>>

NextGz ==
    \/ set_calibration
    \/ add_metadata
    \/ set_background
    \/ clear
    \/ save_as_json
    \/ save_as_json_gz
    \/ load_from_json_gz

SpecGz == InitGz /\ [][NextGz]_vars

(***************************************************************************)
(* Claims checked under SpecGz                                             *)
(***************************************************************************)
\* the content of path.json.gz after a compressed save of s
GzOf(s) == Some(Gzip(JsonDumps(GetAsJson(s))))

\* C13: when save_as_json(path, compressed=True) returns normally,
\* path.json.gz exists (holding the saved document) and path.json does not;
\* when the compression step fails (compression level outside 0..9, or a
\* file-system fault while writing the .gz or removing the original) the call
\* raises and the path.json written in step 1 is still on disk.
C13_CompressedSaveLeavesOneFile ==
    op = "save_as_json_gz" =>
        /\ exc = "none" => (disk.gz = GzOf(pre) /\ IsNone(disk.json))
        /\ (/\ ~IsNone(pre.raw_counts)
            /\ (arg.compresslevel \notin 0..9 \/ arg.fault # "none")) =>
                (exc # "none" /\ disk.json = Some(JsonDumps(GetAsJson(pre))))

\* a compressed save with level 10 failed and left path.json beside the
\* path.json.gz that an earlier compressed save of another state had written
C13_Witness ==
    /\ op = "save_as_json_gz"
    /\ arg.compresslevel = 10
    /\ exc = "IOError"
    /\ disk.json = Some(JsonDumps(GetAsJson(pre)))
    /\ ~IsNone(saved_gz)
    /\ disk.gz = GzOf(Val(saved_gz))
    /\ disk.gz # GzOf(pre)

\* two Spectrum objects hold the same counts, background, calibration and metadata
SameState(a, b) ==
    /\ a.raw_counts = b.raw_counts
    /\ a.background_counts = b.background_counts
    /\ a.cal_a = b.cal_a
    /\ a.cal_b = b.cal_b
    /\ a.metadata = b.metadata

McaStartSpectra ==
    StartSpectra \cup
        { SetRawCounts(NewSpectrum, ToList(q), TRUE).s : q \in SeqsUpTo({0, 3}, MaxLen) }

InitMca ==
    /\ sp \in McaStartSpectra
    /\ agg = NoSpectra
    /\ numpy_wraps \in BOOLEAN
    /\ disk = NoFiles
    /\ saved = None
    /\ saved_gz = None
    /\ intensity_data = <<>>
    /\ pre = sp
    /\ op = "init"
    /\ arg = None
    /\ exc = "none"
    /\ ret = None

save_as_mca ==
    \E r \in {SaveAsMca(sp, disk)} :
        /\ op' = "save_as_mca" /\ arg' = None
        /\ pre' = sp /\ exc' = r.exc /\ ret' = None
        /\ disk' = r.disk
        /\ saved' = IF r.exc = "none" THEN Some(sp) ELSE saved
        /\ UNCHANGED <<sp, agg, numpy_wraps, intensity_data, saved_gz>>

\* Spectrum().load_from_mca(filename)
load_saved_mca ==
    \E r \in {LoadFromMca(NewSpectrum, McaFileAt(disk), numpy_wraps)} :
        /\ op' = "load_saved_mca" /\ arg' = McaFileAt(disk)
        /\ pre' = sp /\ exc' = r.exc /\ ret' = Some(r.s)
        /\ UNCHANGED <<sp, agg, numpy_wraps, disk, intensity_data, saved, saved_gz>>

NextMca ==
    \/ set_calibration
    \/ add_metadata
    \/ set_background
    \/ clear
    \/ save_as_mca
    \/ load_saved_mca

SpecMca == InitMca /\ [][NextMca]_vars

(***************************************************************************)
(* Claims checked under SpecMca                                            *)
(***************************************************************************)
\* C17: a fresh Spectrum that loads with load_from_mca the file written by
\* save_as_mca ends with the saved raw counts, element for element, the
\* default calibration (1.0, 0.0), empty metadata and an all-zero background
\* of the same length, whatever the saver's calibration, metadata and
\* background were.
C17_McaRoundTrip ==
    (op = "load_saved_mca" /\ ~IsNone(saved)) =>
        /\ exc = "none"
        /\ Val(ret).raw_counts = Val(saved).raw_counts
        /\ Val(ret).cal_a = NewSpectrum.cal_a
        /\ Val(ret).cal_b = NewSpectrum.cal_b
        /\ Val(ret).metadata = <<>>
        /\ ~IsNone(Val(ret).background_counts)
        /\ Len(Val(Val(ret).background_counts)) = Len(Val(Val(saved).raw_counts))
        /\ AllZero(Val(Val(ret).background_counts))

\* a Spectrum with two channels, a non-zero background, its own calibration
\* and metadata was saved, and the file loaded into a fresh Spectrum
C17_Witness ==
    /\ op = "load_saved_mca"
    /\ ~IsNone(saved)
    /\ Len(Val(Val(saved).raw_counts)) = 2
    /\ ~AllZero(Val(Val(saved).background_counts))
    /\ Val(saved).cal_a # NewSpectrum.cal_a
    /\ Val(saved).cal_b # NewSpectrum.cal_b
    /\ Val(saved).metadata # <<>>
    /\ Val(ret).raw_counts = Val(saved).raw_counts

(***************************************************************************)
(* Specification SpecAggJson: a TridimensionalSpectrum grows with          *)
(* add_new_spectrum and is saved with save_as_json; the file may be        *)
(* rewritten in the old one-document-per-key schema; another aggregate     *)
(* loads it with load_from_json.  saved is the aggregate as it was when    *)
(* the file was written, ret the other aggregate after its load, arg.disk  *)
(* the file system as the load found it.                                   *)
(***************************************************************************)
\* a Spectrum with counts whose metadata holds the given device_id
WithDevice(id) ==
    AddMetadata(SetRawCounts(NewSpectrum, PyList(<<PyInt(3)>>), TRUE).s,
                PyDict(<<Item("device_id", id)>>)).s
\* the Spectrum objects and coordinates handed to add_new_spectrum
AggSpectra ==
    { WithDevice(PyInt(0)),
      Built(PyFloat(1), PyInt(10), SampleMetadata,
            PyList(<<PyInt(3), PyInt(0)>>), PyList(<<PyInt(0), PyInt(3)>>)),
      NewSpectrum }
AggCoords == {<<0, 0, 0>>, <<-3, 1, 4>>}

InitAggJson ==
    /\ sp = NewSpectrum
    /\ agg = NoSpectra
    /\ numpy_wraps \in BOOLEAN
    /\ disk = NoFiles
    /\ saved = None
    /\ saved_gz = None
    /\ intensity_data = <<>>
    /\ pre = NoSpectra
    /\ op = "init"
    /\ arg = None
    /\ exc = "none"
    /\ ret = None

add_new_spectrum_with_metadata ==
    /\ get_num_spectra(agg) < MaxSpectra
    /\ \E spectrum \in AggSpectra, coords \in AggCoords :
        \E r \in {AddNewSpectrum(agg, spectrum, coords)} :
            /\ op' = "add_new_spectrum" /\ arg' = <<spectrum, coords>>
            /\ pre' = agg /\ agg' = r.s /\ exc' = r.exc /\ ret' = r.ret
            /\ UNCHANGED <<sp, numpy_wraps, disk, intensity_data, saved, saved_gz>>

agg_save_as_json ==
    \E compressed \in BOOLEAN, compresslevel \in {9}, fault \in {"none"} :
        \E r \in {AggSaveAsJson(agg, disk, compressed, compresslevel, fault)} :
            /\ op' = "agg_save_as_json"
            /\ arg' = [compressed |-> compressed, compresslevel |-> compresslevel,
                       fault |-> fault]
            /\ pre' = agg /\ exc' = r.exc /\ ret' = None
            /\ disk' = r.disk
            /\ saved' = IF r.exc = "none" THEN Some(agg) ELSE saved
            /\ UNCHANGED <<sp, agg, numpy_wraps, intensity_data, saved_gz>>

\* the document with the one-element lists at the keys in U replaced by
\* their element: the older schema
OldSchema(text, U) ==
    LET spectra == Lookup(text.j.o, "spectra").o
    IN  [text EXCEPT !.j.o =
            << text.j.o[1],
               Item("spectra",
                    [text.j.o[2].v EXCEPT !.o =
                        Tuple([i \in 1..Len(spectra) |->
                                  IF i \in U /\ Len(spectra[i].v.o) = 1
                                  THEN Item(spectra[i].k, spectra[i].v.o[1])
                                  ELSE spectra[i]])]) >>]

\* the file written by save_as_json is replaced by one of the older schema
write_old_schema ==
    /\ op = "agg_save_as_json" /\ exc = "none" /\ ~IsNone(disk.json)
    /\ \E U \in SUBSET (1..Len(agg)) :
        /\ U # {}
        /\ op' = "write_old_schema" /\ arg' = U
        /\ pre' = agg /\ exc' = "none" /\ ret' = None
        /\ disk' = [disk EXCEPT !.json = Some(OldSchema(Val(disk.json), U))]
        /\ UNCHANGED <<sp, agg, numpy_wraps, intensity_data, saved, saved_gz>>

\* TridimensionalSpectrum().load_from_json(filename, compressed)
agg_load_from_json ==
    \E compressed \in BOOLEAN, fault \in {"none"} :
        \E r \in {AggLoadFromJson(NoSpectra, disk, compressed, numpy_wraps, fault)} :
            /\ op' = "agg_load_from_json"
            /\ arg' = [compressed |-> compressed, fault |-> fault, disk |-> disk]
            /\ pre' = agg /\ exc' = r.exc /\ ret' = Some(r.s)
            /\ disk' = r.disk
            /\ UNCHANGED <<sp, agg, numpy_wraps, intensity_data, saved, saved_gz>>

NextAggJson ==
    \/ add_new_spectrum_with_metadata
    \/ agg_save_as_json
    \/ write_old_schema
    \/ agg_load_from_json

SpecAggJson == InitAggJson /\ [][NextAggJson]_vars

(***************************************************************************)
(* Claims checked under SpecAggJson                                        *)
(***************************************************************************)
\* the text save_as_json writes for the aggregate a
AggDocOf(a) == JsonDumps(AggGetAsJson(a).data)

\* the load found the file, plain or compressed, as the save of the
\* aggregate in saved had left it
LoadsTheSavedFile ==
    /\ op = "agg_load_from_json"
    /\ ~IsNone(saved)
    /\ IF arg.compressed
       THEN /\ IsNone(arg.disk.json)
            /\ arg.disk.gz = Some(Gzip(AggDocOf(Val(saved))))
            /\ arg.fault # "write"
       ELSE arg.disk.json = Some(AggDocOf(Val(saved)))

\* two aggregates hold the same coordinates in the same order and, at each,
\* as many spectra in the same order with the same state
SameAggregate(a, b) ==
    /\ Len(a) = Len(b)
    /\ \A i \in 1..Len(a) :
          /\ a[i].coords = b[i].coords
          /\ Len(a[i].spectra) = Len(b[i].spectra)
          /\ \A j \in 1..Len(a[i].spectra) : SameState(a[i].spectra[j], b[i].spectra[j])

\* C21: the aggregate that load_from_json fills from the file save_as_json
\* wrote has the saved aggregate's coordinate keys and, at each coordinate,
\* as many spectra in the same order with the same counts, background,
\* calibration and metadata.
C21_AggregateRoundTrip ==
    LoadsTheSavedFile => SameAggregate(Val(ret), Val(saved))

\* an aggregate with two spectra at a coordinate with a negative and a
\* fractional component, one of them with a background and a calibration,
\* was saved, grown afterwards, and loaded
C21_Witness ==
    /\ LoadsTheSavedFile
    /\ exc = "none"
    /\ ~arg.compressed
    /\ Len(Val(saved)) = 1
    /\ Val(saved)[1].coords = <<-3, 1, 4>>
    /\ Len(Val(saved)[1].spectra) = 2
    /\ Val(saved)[1].spectra[1].cal_b # 0
    /\ HasKey(Val(saved)[1].spectra[2].metadata, "device_id")
    /\ Val(ret) = Val(saved)

\* the text is an aggregate document: {"format_version": ..., "spectra": {...}}
IsAggDocument(text) ==
    /\ text.parsable
    /\ text.j.t = "object"
    /\ Len(text.j.o) = 2
    /\ text.j.o[2].k = "spectra"
    /\ text.j.o[2].v.t = "object"

\* the document with every key's single Spectrum document wrapped in a list
NewSchema(text) ==
    LET spectra == Lookup(text.j.o, "spectra").o
    IN  [text EXCEPT !.j.o =
            << text.j.o[1],
               Item("spectra",
                    [text.j.o[2].v EXCEPT !.o =
                        Tuple([i \in 1..Len(spectra) |->
                                  IF spectra[i].v.t # "array"
                                  THEN Item(spectra[i].k, JArray(<<spectra[i].v>>))
                                  ELSE spectra[i]])]) >>]

\* C22: a document in which some keys hold a single Spectrum document D is
\* loaded to the same aggregate, with the same outcome, as the document in
\* which those keys hold the list [D].
C22_OldSchemaLoadsAsList ==
    (/\ op = "agg_load_from_json" /\ ~arg.compressed
     /\ ~IsNone(arg.disk.json) /\ IsAggDocument(Val(arg.disk.json))) =>
        \E r \in {AggLoadFromJson(NoSpectra,
                                  [arg.disk EXCEPT !.json = Some(NewSchema(Val(arg.disk.json)))],
                                  FALSE, numpy_wraps, arg.fault)} :
            /\ Val(ret) = r.s
            /\ exc = r.exc

\* a document with a single Spectrum document at its first key and a list at
\* its second was loaded
C22_Witness ==
    /\ op = "agg_load_from_json" /\ ~arg.compressed
    /\ ~IsNone(arg.disk.json) /\ IsAggDocument(Val(arg.disk.json))
    /\ exc = "none"
    /\ Len(Lookup(Val(arg.disk.json).j.o, "spectra").o) = 2
    /\ Lookup(Val(arg.disk.json).j.o, "spectra").o[1].v.t = "object"
    /\ Lookup(Val(arg.disk.json).j.o, "spectra").o[2].v.t = "array"
    /\ Len(Val(ret)) = 2
    /\ Len(Val(ret)[1].spectra) = 1
    /\ Val(ret) = Val(saved)

(***************************************************************************)
(* Specification SpecDetectors: the in-memory operations of the aggregate  *)
(* (add_new_spectrum, clear and the queries) over spectra whose metadata   *)
(* carries every kind of device_id value, or none.                         *)
(***************************************************************************)
\* int(v): [exc, n]. A float is truncated toward zero, a string must be an integer
\* literal, None and containers raise TypeError. The ids supplied fit in 32 bits.
PyIntOf(v) ==
    CASE v.t \in {"int", "bool"} -> [exc |-> "none", n |-> v.n]
      [] v.t = "float" -> [exc |-> "none", n |-> AsInt32(v)]
      [] v.t = "str" -> IF v.s \in IntStrings
                        THEN [exc |-> "none", n |-> IntOfStr(v.s)]
                        ELSE [exc |-> "ValueError", n |-> 0]
      [] OTHER -> [exc |-> "TypeError", n |-> 0]

\* Mutant: the ids come back in descending order
RECURSIVE Sorted_Descending(_)
Sorted_Descending(S) ==
    IF S = {} THEN <<>>
    ELSE LET m == CHOOSE x \in S : \A y \in S : x >= y
         IN  <<m>> \o Sorted_Descending(S \ {m})

\* sorted(list(detector_ids))
RECURSIVE Sorted(_)
Sorted(S) ==
    IF S = {} THEN <<>>
    ELSE LET m == CHOOSE x \in S : \A y \in S : x <= y
         IN  <<m>> \o Sorted(S \ {m})

\* The body of the loop over spectra: the ids one spectrum contributes. A missing
\* device_id, and a ValueError or TypeError of int(), contribute nothing.
DetectorOf(spectrum) ==
    IF HasKey(spectrum.metadata, "device_id")
    THEN LET r == PyIntOf(Lookup(spectrum.metadata, "device_id"))
         IN  IF r.exc = "none" THEN {r.n} ELSE {}
    ELSE {}

\* TridimensionalSpectrum.get_available_detector_ids
GetAvailableDetectorIds(a) ==
    LET detector_ids == UNION { UNION { DetectorOf(a[i].spectra[j]) :
                                        j \in 1..Len(a[i].spectra) } : i \in 1..Len(a) }
    IN  R(a, "none", Some(Sorted(detector_ids)))

\* matching_spectra of one coordinate
MatchingSpectra(spectrum_list, detector_id) ==
    SelectSeq(spectrum_list, LAMBDA spectrum : detector_id \in DetectorOf(spectrum))

\* Mutant: a coordinate without a match is kept with an empty list
RECURSIVE FilterByDetector_KeepEmpty(_, _)
FilterByDetector_KeepEmpty(a, detector_id) ==
    IF a = <<>> THEN <<>>
    ELSE <<[coords |-> Head(a).coords,
            spectra |-> MatchingSpectra(Head(a).spectra, detector_id)]>>
         \o FilterByDetector_KeepEmpty(Tail(a), detector_id)

\* The loop over self._spectra.items(): only non-empty matches are entered
RECURSIVE FilterByDetector(_, _)
FilterByDetector(a, detector_id) ==
    IF a = <<>> THEN <<>>
    ELSE LET matching_spectra == MatchingSpectra(Head(a).spectra, detector_id)
             rest == FilterByDetector(Tail(a), detector_id)
         IN  IF matching_spectra # <<>>
             THEN <<[coords |-> Head(a).coords, spectra |-> matching_spectra]>> \o rest
             ELSE rest

\* TridimensionalSpectrum.get_spectra_by_detector
GetSpectraByDetector(a, detector_id) == R(a, "none", Some(FilterByDetector(a, detector_id)))

\* device_id values: ints, an integer literal, a non-literal string, the float 1.5
\* and None
DeviceIds == { PyInt(0), PyInt(1), PyStr("1"), PyStr("x"), PyFloat(3), PyNone }
DetectorSpectra == { WithDevice(id) : id \in DeviceIds }
                   \cup { SetRawCounts(NewSpectrum, PyList(<<PyInt(3)>>), TRUE).s }
DetectorIds == {0, 1, 3}

InitDetectors ==
    /\ sp = NewSpectrum
    /\ agg = NoSpectra
    /\ numpy_wraps = TRUE
    /\ disk = NoFiles
    /\ saved = None
    /\ saved_gz = None
    /\ intensity_data = <<>>
    /\ pre = NoSpectra
    /\ op = "init"
    /\ arg = None
    /\ exc = "none"
    /\ ret = None

add_new_spectrum_of_detector ==
    /\ get_num_spectra(agg) < MaxDetectorSpectra
    /\ \E spectrum \in DetectorSpectra, coords \in AggCoords :
        \E r \in {AddNewSpectrum(agg, spectrum, coords)} :
            /\ op' = "add_new_spectrum" /\ arg' = <<spectrum, coords>>
            /\ pre' = agg /\ agg' = r.s /\ exc' = r.exc /\ ret' = r.ret
            /\ UNCHANGED <<sp, numpy_wraps, disk, intensity_data, saved, saved_gz>>

get_available_detector_ids ==
    /\ \E r \in {GetAvailableDetectorIds(agg)} :
            /\ op' = "get_available_detector_ids" /\ arg' = None
            /\ pre' = agg /\ agg' = r.s /\ exc' = r.exc /\ ret' = r.ret
            /\ UNCHANGED <<sp, numpy_wraps, disk, intensity_data, saved, saved_gz>>

get_spectra_by_detector ==
    /\ \E detector_id \in DetectorIds :
        \E r \in {GetSpectraByDetector(agg, detector_id)} :
            /\ op' = "get_spectra_by_detector" /\ arg' = Some(detector_id)
            /\ pre' = agg /\ agg' = r.s /\ exc' = r.exc /\ ret' = r.ret
            /\ UNCHANGED <<sp, numpy_wraps, disk, intensity_data, saved, saved_gz>>

NextDetectors ==
    \/ add_new_spectrum_of_detector
    \/ agg_clear
    \/ get_available_detector_ids
    \/ get_spectra_by_detector

SpecDetectors == InitDetectors /\ [][NextDetectors]_vars

\* every spectrum stored in the aggregate a
StoredSpectra(a) == UNION { { a[i].spectra[j] : j \in 1..Len(a[i].spectra) } : i \in 1..Len(a) }

\* the device_id values that int() accepts, told by their type alone
Coercible(v) == v.t \in {"int", "bool", "float"} \/ (v.t = "str" /\ v.s \in IntStrings)

\* C23: get_available_detector_ids never raises, leaves the aggregate as it was and
\* returns a strictly ascending list whose elements are exactly the integers
\* int(device_id) of the stored spectra that have a device_id int() accepts.
C23_DetectorIdsSortedDistinctExact ==
    op = "get_available_detector_ids" =>
        /\ exc = "none"
        /\ agg = pre
        /\ \A i \in 1..(Len(Val(ret)) - 1) : Val(ret)[i] < Val(ret)[i + 1]
        /\ {Val(ret)[i] : i \in 1..Len(Val(ret))}
             = { PyIntOf(Lookup(s.metadata, "device_id")).n :
                   s \in { x \in StoredSpectra(pre) :
                             /\ HasKey(x.metadata, "device_id")
                             /\ Coercible(Lookup(x.metadata, "device_id")) } }

\* ids 0 and 1 are returned in that order although a spectrum without the field and
\* one with a non-coercible value are stored too
C23_Witness ==
    /\ op = "get_available_detector_ids"
    /\ Val(ret) = <<0, 1>>
    /\ \E s \in StoredSpectra(agg) : ~HasKey(s.metadata, "device_id")
                                     \/ ~Coercible(Lookup(s.metadata, "device_id"))

\* a spectrum whose device_id coerces to the integer id
HasDetector(s, id) ==
    /\ HasKey(s.metadata, "device_id")
    /\ Coercible(Lookup(s.metadata, "device_id"))
    /\ PyIntOf(Lookup(s.metadata, "device_id")).n = id

\* C24: get_spectra_by_detector(id) leaves the aggregate as it was and returns the
\* coordinates that hold at least one spectrum of detector id, in stored order,
\* each with exactly its matching spectra in stored order; no list is empty.
C24_FilterByDetectorExact ==
    op = "get_spectra_by_detector" =>
        LET id == Val(arg)
            out == Val(ret)
        IN  /\ exc = "none"
            /\ agg = pre
            /\ \A i \in 1..Len(out) : out[i].spectra # <<>>
            /\ \A i, j \in 1..Len(out) : out[i].coords = out[j].coords => i = j
            /\ {out[i].coords : i \in 1..Len(out)}
                 = { pre[i].coords : i \in { k \in 1..Len(pre) :
                        \E j \in 1..Len(pre[k].spectra) : HasDetector(pre[k].spectra[j], id) } }
            /\ \A i \in 1..Len(out) :
                 out[i].spectra = SelectSeq(get_spectra_at_position(pre, out[i].coords),
                                            LAMBDA s : HasDetector(s, id))

\* two coordinates are stored, one of them without a match, and the other holds a
\* matching and a non-matching spectrum
C24_Witness ==
    /\ op = "get_spectra_by_detector"
    /\ Len(agg) = 2
    /\ Len(Val(ret)) = 1
    /\ Len(Val(ret)[1].spectra) < Len(get_spectra_at_position(agg, Val(ret)[1].coords))

\* C25: add_new_spectrum(s, c) appends s to the list at c, leaves every other list
\* as it was and raises get_num_spectra by one; every step other than a clear keeps
\* each stored list as a prefix of the list at the same coordinate.
C25_SpatialIndexAppendOnly ==
    [][ /\ op' = "add_new_spectrum" =>
            /\ get_spectra_at_position(agg', arg'[2])
                 = Append(get_spectra_at_position(agg, arg'[2]), arg'[1])
            /\ \A c \in AggCoords \ {arg'[2]} :
                 get_spectra_at_position(agg', c) = get_spectra_at_position(agg, c)
            /\ get_num_spectra(agg') = get_num_spectra(agg) + 1
        /\ op' # "clear" =>
            \A c \in AggCoords :
                LET before == get_spectra_at_position(agg, c)
                    after == get_spectra_at_position(agg', c)
                IN  /\ Len(before) <= Len(after)
                    /\ SubSeq(after, 1, Len(before)) = before ]_vars

\* device_id 0 and then device_id 1 were added at one coordinate and both come back
\* in that order
C25_Witness ==
    /\ op = "add_new_spectrum"
    /\ \E c \in AggCoords :
        get_spectra_at_position(agg, c) = <<WithDevice(PyInt(0)), WithDevice(PyInt(1))>>

(***************************************************************************)
(* Specification SpecPosition: add_new_spectrum and clear, with            *)
(* add_new_spectrum_from_file applied to files whose metadata gives        *)
(* coordinates in a position field, at top level, or in both.              *)
(***************************************************************************)
\* a position whose z float() rejects
BadPositionMetadata ==
    <<Item("position", PyDict(<<Item("x", PyInt(1)), Item("y", PyInt(1)),
                                Item("z", PyStr("north"))>>))>> \o XyzMetadata
BadPositionFile ==
    Entry("file", ".json", SavedText(BadPositionMetadata, PyList(<<PyInt(3)>>)), <<>>)

PositionFiles == {PositionFile, XyzFile, NoCoordsFile, BothFile, ScalarPositionFile,
                  PartialPositionFile, BadPositionFile, TextFile, MissingFile,
                  UnparsableFile}

add_position_file ==
    /\ get_num_spectra(agg) < MaxSpectra
    /\ \E file_path \in PositionFiles :
        \E r \in {AddNewSpectrumFromFile(agg, file_path, numpy_wraps)} :
            /\ op' = "add_new_spectrum_from_file" /\ arg' = file_path
            /\ pre' = agg /\ agg' = r.s /\ exc' = r.exc /\ ret' = r.ret
            /\ UNCHANGED <<sp, numpy_wraps, disk, intensity_data, saved, saved_gz>>

NextPosition ==
    \/ add_position_file
    \/ add_new_spectrum
    \/ agg_clear

SpecPosition == InitFolder /\ [][NextPosition]_vars

load_from_json_in_place ==
    \E compressed \in BOOLEAN :
        \E r \in { IF compressed THEN LoadFromJsonGz(sp, disk, numpy_wraps, "none")
                   ELSE Only({ [s |-> l.s, exc |-> l.exc, disk |-> disk]
                                 : l \in {LoadFromJson(sp, FileAt(disk), numpy_wraps)} }) } :
            /\ op' = "load_from_json"
            /\ arg' = [compressed |-> compressed, disk |-> disk]
            /\ pre' = sp /\ sp' = r.s /\ exc' = r.exc /\ ret' = None
            /\ disk' = r.disk
            /\ saved' = IF r.disk.json = disk.json THEN saved
                        ELSE IF ~IsNone(disk.gz) /\ r.disk.json = Val(disk.gz).member
                             THEN saved_gz ELSE None
            /\ UNCHANGED <<agg, numpy_wraps, intensity_data, saved_gz>>

NextReload ==
    \/ add_metadata
    \/ clear
    \/ save_as_json
    \/ save_as_json_gz
    \/ load_from_json_in_place

SpecReload == InitGz /\ [][NextReload]_vars

\* C29: load_from_json called where the file is missing (plain: no path.json;
\* compressed: neither path.json nor path.json.gz) raises FileNotFoundError and
\* leaves raw counts, background, calibration and metadata as they were.
C29_MissingFileLeavesSpectrum ==
    ( /\ op = "load_from_json"
      /\ IsNone(arg.disk.json)
      /\ arg.compressed => IsNone(arg.disk.gz) )
    => /\ exc = "FileNotFoundError"
       /\ sp.raw_counts = pre.raw_counts
       /\ sp.background_counts = pre.background_counts
       /\ sp.cal_a = pre.cal_a /\ sp.cal_b = pre.cal_b
       /\ sp.metadata = pre.metadata

\* a compressed load found neither file and the Spectrum still holds its counts, a
\* non-zero background, its calibration and its metadata
C29_Witness ==
    /\ op = "load_from_json"
    /\ arg.compressed
    /\ arg.disk = NoFiles
    /\ exc = "FileNotFoundError"
    /\ ~IsNone(sp.background_counts)
    /\ ~AllZero(Val(sp.background_counts))
    /\ sp.cal_b # 0
    /\ sp.metadata # <<>>

(***************************************************************************)
(* Specification SpecSaveSteps: the compressed save taken one file         *)
(* operation at a time.  op is the position of the running save            *)
(* ("json_opened", "json_written", "gz_opened", "gz_closed"); the process  *)
(* may die at any position and any file operation may fail.  saved is the  *)
(* Spectrum whose document the last completed write of path.json wrote.    *)
(***************************************************************************)
SaveSteps == {"json_opened", "json_written", "gz_opened", "gz_closed"}

\* filepath.open('w'): the file exists and is empty until json.dump has run
JsonOpened(d) == [d EXCEPT !.json = Some(EmptyText)]
\* json.dump(data_to_save, f) and the close of the with block
JsonWritten(s, d) == [d EXCEPT !.json = Some(JsonDumps(GetAsJson(s)))]

\* Mutant: the original is removed when the compressed file is opened
GzOpened_RemovesOriginal(d) == [d EXCEPT !.gz = Some(TruncatedGz), !.json = None]

\* gzip.open(output_filepath, 'wb'): the .gz exists without a complete member
GzOpened(d) == [d EXCEPT !.gz = Some(TruncatedGz)]
\* shutil.copyfileobj(f_in, f_out) and the close of both with blocks
GzClosed(d) == [d EXCEPT !.gz = Some(Gzip(Val(d.json)))]
\* input_filepath.unlink()
OriginalRemoved(d) == [d EXCEPT !.json = None]

\* save_as_json(filename, compressed=True, compresslevel) up to the open of path.json
open_json ==
    /\ op \notin SaveSteps
    /\ \E compresslevel \in {9, 10} :
        /\ arg' = compresslevel /\ pre' = sp /\ ret' = None
        /\ IF IsNone(sp.raw_counts)
           THEN /\ op' = "save_failed" /\ exc' = "ValueError"
                /\ UNCHANGED <<disk, saved>>
           ELSE /\ op' = "json_opened" /\ exc' = "none"
                /\ disk' = JsonOpened(disk)
                /\ saved' = None
        /\ UNCHANGED <<sp, agg, numpy_wraps, intensity_data, saved_gz>>

write_json ==
    /\ op = "json_opened"
    /\ op' = "json_written"
    /\ disk' = JsonWritten(sp, disk)
    /\ saved' = Some(sp)
    /\ UNCHANGED <<sp, agg, numpy_wraps, intensity_data, saved_gz, pre, arg, exc, ret>>

\* compress_file_gz up to gzip.open; a level outside 0..9 raises before any file is touched
open_gz ==
    /\ op = "json_written"
    /\ IF ~(0 <= arg /\ arg <= 9)
       THEN /\ op' = "save_failed" /\ exc' = "IOError"
            /\ UNCHANGED disk
       ELSE /\ op' = "gz_opened" /\ exc' = "none"
            /\ disk' = GzOpened(disk)
    /\ UNCHANGED <<sp, agg, numpy_wraps, intensity_data, saved, saved_gz, pre, arg, ret>>

write_gz ==
    /\ op = "gz_opened"
    /\ \E fault \in {"none", "write"} :
        IF fault = "write"
        THEN /\ op' = "save_failed" /\ exc' = "IOError"
             /\ UNCHANGED disk
        ELSE /\ op' = "gz_closed" /\ exc' = "none"
             /\ disk' = GzClosed(disk)
    /\ UNCHANGED <<sp, agg, numpy_wraps, intensity_data, saved, saved_gz, pre, arg, ret>>

unlink_json ==
    /\ op = "gz_closed"
    /\ \E fault \in {"none", "unlink"} :
        IF fault = "unlink"
        THEN /\ op' = "save_failed" /\ exc' = "IOError"
             /\ UNCHANGED disk
        ELSE /\ op' = "save_done" /\ exc' = "none"
             /\ disk' = OriginalRemoved(disk)
    /\ UNCHANGED <<sp, agg, numpy_wraps, intensity_data, saved, saved_gz, pre, arg, ret>>

\* the process dies in the middle of a save; the files stay as they are
crash ==
    /\ op \in SaveSteps
    /\ op' = "crashed" /\ arg' = op
    /\ UNCHANGED <<sp, agg, numpy_wraps, disk, intensity_data, saved, saved_gz, pre, exc, ret>>

\* the Spectrum is edited between two saves
edit_between_saves ==
    /\ op \notin SaveSteps
    /\ (add_metadata \/ set_calibration \/ clear)

NextSaveSteps ==
    \/ open_json
    \/ write_json
    \/ open_gz
    \/ write_gz
    \/ unlink_json
    \/ crash
    \/ edit_between_saves

SpecSaveSteps == InitGz /\ [][NextSaveSteps]_vars

\* C30: from the moment the write of path.json has completed, whatever step,
\* failure or crash follows, path.json holds the saved document or path.json.gz
\* holds it completely; path.json is absent only when path.json.gz is complete.
C30_OneCompleteCopyAlways ==
    ~IsNone(saved) =>
        \/ disk.json = Some(JsonDumps(GetAsJson(Val(saved))))
        \/ /\ ~IsNone(disk.gz)
           /\ Val(disk.gz) = Gzip(JsonDumps(GetAsJson(Val(saved))))

\* the process died while path.json.gz was open: the plain copy is the complete one
C30_Witness ==
    /\ op = "crashed"
    /\ arg = "gz_opened"
    /\ ~IsNone(saved)
    /\ disk.json = Some(JsonDumps(GetAsJson(Val(saved))))
    /\ disk.gz = Some(TruncatedGz)

====
